---- MODULE Spec2Model ----
(***************************************************************************)
(* Model of the Mechanical Turk MCP bridge: the controller-side            *)
(* BridgeClient (src/src/bridge/bridge-client.ts).                         *)
(*                                                                         *)
(* One step of the model is one turn of the Node.js event loop: a call     *)
(* made by a tool handler, a socket event, or a timer, together with the   *)
(* promise reactions (microtasks) that the turn leaves behind.             *)
(***************************************************************************)
EXTENDS Integers, Sequences, FiniteSets, TLC

(* ---------------------------------------------------------------------- *)
(* Bounds                                                                  *)
(* ---------------------------------------------------------------------- *)
MaxSockets == 3     \* sockets the client may create in one behaviour
MaxCalls   == 3     \* connect()/request() calls made in one behaviour
MaxPeers   == 2     \* connections made to the bridge server in one behaviour
MaxTexts   == 2     \* text frames sent to the bridge server in one behaviour

Sockets == 1..MaxSockets
Slots   == 1..MaxCalls
PeerIds == 1..MaxPeers

(* ---------------------------------------------------------------------- *)
(* Values                                                                  *)
(* ---------------------------------------------------------------------- *)
NULL == 0                           \* ws / connectPromise = null
DefaultTimeoutMs == 30000           \* request(..., timeoutMs = 30000)
Url == "ws://localhost:9080"        \* `ws://${this.host}:${this.port}`

Methods  == {"ping"}
Results  == {"pong"}
Messages == {"Method not found: nope"}
MethodNotFound == -32601
ErrCodes == {MethodNotFound}

\* String(n): the key under which request n is stored and sent.
String(n) == <<"string", n>>
\* An id that the peer wrote as a JSON number instead of a string.
Number(n) == <<"number", n>>
NoId == <<"none", 0>>

\* Ids a response may carry: every id the client can issue, one it never
\* issues, and the first id written as a number.
WireIds == {String(n) : n \in 1..(MaxCalls + 1)} \cup {Number(1)}

NoError  == [code |-> 0, message |-> ""]
ErrObjs  == [code : ErrCodes, message : Messages]

\* BridgeResponse as it comes out of JSON.parse, or a text that does not parse.
Garbage == [parses |-> FALSE, id |-> NoId, result |-> "", error |-> NoError]
Frames  == [parses : {TRUE}, id : WireIds, result : Results, error : {NoError}]
             \cup [parses : {TRUE}, id : WireIds, result : {""}, error : ErrObjs]
             \cup {Garbage}

(* Error objects: new Error(message) has a message and no other field of   *)
(* its own.  A message is kept as the list of its pieces.                  *)
Error(message) == [message |-> message]
NoReason == Error(<<>>)
ClosedError == Error(<<"Bridge connection closed">>)
BridgeError(message) == Error(<<"Bridge error: ", message>>)
TimeoutError(method, ms) ==
    Error(<<"Bridge request '", method, "' timed out after ", ToString(ms), "ms">>)
ConnectTimeoutError ==
    Error(<<"Connection to Mechanical Turk bridge timed out (", Url,
            "). Is the Godot editor running with the MCP plugin enabled?">>)
ConnectError ==
    Error(<<"Cannot connect to Mechanical Turk bridge at ", Url,
            ". Ensure the Godot editor is running with the Mechanical Turk MCP plugin enabled. ",
            "Use the install_plugin tool to install the plugin, then enable it in Project > Project Settings > Plugins.">>)
SendOnNullError ==
    Error(<<"TypeError: Cannot read properties of null (reading 'send')">>)

(* ---------------------------------------------------------------------- *)
(* State                                                                   *)
(* ---------------------------------------------------------------------- *)
VARIABLES
    readyState,       \* readyState of every socket the client has created
    connectTimer,     \* the 5 s timer of each connection attempt
    attempt,          \* the promise of each connection attempt
    ws,               \* BridgeClient.ws
    connectPromise,   \* BridgeClient.connectPromise (named by its socket)
    requestId,        \* BridgeClient.requestId
    pendingRequests,  \* BridgeClient.pendingRequests: key -> call
    calls,            \* the promises handed to the callers, and their timers
    sent,             \* frames given to ws.send, in order
    undecoded,        \* a frame failed to decode while a call was pending
    _tcp_server,      \* bridge server: the listening TCPServer, or null
    _peers,           \* bridge server: Array[WebSocketPeer], in order
    ready_state,      \* get_ready_state() of every WebSocketPeer
    packets,          \* text frames received on each connection, not yet read
    handled,          \* handler invocations, in order
    awaiting,         \* _handle_message coroutines awaiting screenshot_ready
    capturing,        \* _capture_deferred coroutines awaiting process_frame
    outbox,           \* send_text calls made by the server, in order
    node,             \* the bridge server node: alive, queued for deletion, freed
    next_id,          \* number of the next text frame a client sends
    given,            \* the value handed to a function of the tool layer
    returned,         \* what that function returned, once it has been called
    activeProcess,    \* editor.ts: the tracked GodotProcess, or null
    spawned,          \* every process run_project has spawned, and its state
    starting,         \* run_project calls awaiting ctx.ensureGodotPath()
    used              \* paths given to spawn, execFile and writeFileSync

cvars == <<readyState, connectTimer, attempt, ws, connectPromise, requestId,
           pendingRequests, calls, sent, undecoded>>
svars == <<_tcp_server, _peers, ready_state, packets, handled,
           awaiting, capturing, outbox, node, next_id>>
pvars == <<activeProcess, spawned, starting, used>>
tvars == <<given, returned, pvars>>
vars == <<cvars, svars, tvars>>

\* No function of the tool layer is under study, or it has not been called.
NotCalled == <<"none", 0>>

\* new Map()
EmptyMap == [x \in {} |-> 0]

IdleCall == [kind |-> "none", method |-> "", st |-> "idle", id |-> NoId,
             timer |-> "none", value |-> "", reason |-> NoReason, sock |-> NULL]
NoAttempt == [status |-> "none", reason |-> NoReason]

\* The whole state as one value, so that handlers compose.
Cur == [readyState |-> readyState, connectTimer |-> connectTimer,
        attempt |-> attempt, ws |-> ws, connectPromise |-> connectPromise,
        requestId |-> requestId, pendingRequests |-> pendingRequests,
        calls |-> calls, sent |-> sent]

SetClient(c) ==
    /\ readyState' = c.readyState
    /\ connectTimer' = c.connectTimer
    /\ attempt' = c.attempt
    /\ ws' = c.ws
    /\ connectPromise' = c.connectPromise
    /\ requestId' = c.requestId
    /\ pendingRequests' = c.pendingRequests
    /\ calls' = c.calls
    /\ sent' = c.sent

\* A step of the client that receives no undecodable frame.
Set(c) ==
    /\ SetClient(c)
    /\ UNCHANGED <<undecoded, svars, tvars>>

InitBridge ==
    /\ readyState = [s \in Sockets |-> "UNUSED"]
    /\ connectTimer = [s \in Sockets |-> "none"]
    /\ attempt = [s \in Sockets |-> NoAttempt]
    /\ ws = NULL
    /\ connectPromise = NULL
    /\ requestId = 0
    /\ pendingRequests = EmptyMap
    /\ calls = [i \in Slots |-> IdleCall]
    /\ sent = <<>>
    /\ undecoded = FALSE
    \* bridge_server.gd after _ready(): _start_server() has run, no peer yet
    /\ _tcp_server = "listening"
    /\ _peers = <<>>
    /\ ready_state = [p \in PeerIds |-> "NEW"]
    /\ packets = [p \in PeerIds |-> <<>>]
    /\ handled = <<>>
    /\ awaiting = <<>>
    /\ capturing = <<>>
    /\ outbox = <<>>
    /\ node = "alive"
    /\ next_id = 1
    \* editor.ts:19: let activeProcess: GodotProcess | null = null
    /\ activeProcess = NULL
    /\ spawned = <<>>
    /\ starting = <<>>
    /\ used = {}

Init ==
    /\ InitBridge
    /\ given = NotCalled
    /\ returned = NotCalled

(* ---------------------------------------------------------------------- *)
(* Promises and timers                                                     *)
(* ---------------------------------------------------------------------- *)
\* clearTimeout: an armed timer never fires; anything else is left alone.
ClearTimeout(t) == IF t = "armed" THEN "cleared" ELSE t

\* resolve / reject of a caller's promise: only the first settlement counts.
ResolveCall(p, v) ==
    IF p.st = "pending" THEN [p EXCEPT !.st = "fulfilled", !.value = v] ELSE p
RejectCall(p, r) ==
    IF p.st = "pending" THEN [p EXCEPT !.st = "rejected", !.reason = r] ELSE p

ResolveAttempt(a) ==
    IF a.status = "pending" THEN [a EXCEPT !.status = "fulfilled"] ELSE a
RejectAttempt(a, r) ==
    IF a.status = "pending" THEN [status |-> "rejected", reason |-> r] ELSE a

\* Map.delete
MapDelete(m, k) == [x \in DOMAIN m \ {k} |-> m[x]]
\* Map.set
MapSet(m, k, v) == [x \in DOMAIN m \cup {k} |-> IF x = k THEN v ELSE m[x]]

\* get isConnected
isConnected(c) == c.ws # NULL /\ c.readyState[c.ws] = "OPEN"


(* ---------------------------------------------------------------------- *)
(* request(): the part after the connection is ensured                     *)
(* ---------------------------------------------------------------------- *)
\* A slip: the id taken from the size of the pending table.
NextIdFromTableSize(c) == Cardinality(DOMAIN c.pendingRequests) + 1

\* const id = String(++this.requestId)
NextId(c) == c.requestId + 1

\* Lines 111-124 for the caller in slot i: allocate the id, arm the timer,
\* store the entry, send the frame.  this.ws!.send on a null ws throws inside
\* the promise executor, which rejects the promise after the entry is stored.
SendRequest(c, i) ==
    LET n   == NextId(c)
        id  == String(n)
        p   == [c.calls[i] EXCEPT !.st = "pending", !.id = id,
                                  !.timer = "armed", !.sock = c.ws]
        c1  == [c EXCEPT !.requestId = n,
                         !.calls[i] = p,
                         !.pendingRequests = MapSet(@, id, i)]
    IN  IF c.ws = NULL
        THEN [c1 EXCEPT !.calls[i] = RejectCall(@, SendOnNullError)]
        ELSE [c1 EXCEPT !.sent = Append(@, [sock |-> c.ws, id |-> id,
                                            method |-> c.calls[i].method])]

\* The continuation of one caller suspended on the attempt of socket s.
ResumeOne(c, s, i) ==
    LET a == c.attempt[s]
        p == c.calls[i]
    IN  IF p.st # "waiting" THEN c
        ELSE IF a.status = "rejected"
             THEN [c EXCEPT !.calls[i] = [p EXCEPT !.st = "rejected", !.reason = a.reason]]
        ELSE IF p.kind = "connect"
             THEN [c EXCEPT !.calls[i] = [p EXCEPT !.st = "fulfilled"]]
        ELSE SendRequest([c EXCEPT !.calls[i] = [p EXCEPT !.st = "pending"]], i)

RECURSIVE ResumeFrom(_, _, _)
ResumeFrom(c, s, i) ==
    IF i > MaxCalls THEN c ELSE ResumeFrom(ResumeOne(c, s, i), s, i + 1)

\* A slip: the promise without its .finally(): connectPromise is never reset.
FinallyKeepsPromise(c, s) ==
    IF c.attempt[s].status \in {"fulfilled", "rejected"} /\ c.connectPromise = s
    THEN ResumeFrom(c, s, 1)
    ELSE c

\* The microtasks that run once the attempt of socket s has settled: first the
\* .finally() callback, then the callers awaiting connect(), in the order in
\* which they began to wait.
Finally(c, s) ==
    IF c.attempt[s].status \in {"fulfilled", "rejected"} /\ c.connectPromise = s
    THEN ResumeFrom([c EXCEPT !.connectPromise = NULL], s, 1)
    ELSE c

(* ---------------------------------------------------------------------- *)
(* The socket's event handlers, registered in connect()                    *)
(* ---------------------------------------------------------------------- *)
\* ws.on('open')
OnOpen(c, s) ==
    [c EXCEPT !.connectTimer[s] = ClearTimeout(@),
              !.ws = s,
              !.attempt[s] = ResolveAttempt(@)]

\* A slip: a response settles the oldest pending call, whatever its id.
OnMessageFifo(c, response) ==
    IF ~response.parses THEN c
    ELSE IF DOMAIN c.pendingRequests = {} THEN c
    ELSE LET k == CHOOSE x \in DOMAIN c.pendingRequests :
                      \A y \in DOMAIN c.pendingRequests : x[2] <= y[2]
             i == c.pendingRequests[k]
             p == [c.calls[i] EXCEPT !.timer = ClearTimeout(@)]
         IN  [c EXCEPT !.pendingRequests = MapDelete(@, k),
                       !.calls[i] =
                           IF response.error # NoError
                           THEN RejectCall(p, BridgeError(response.error.message))
                           ELSE ResolveCall(p, response.result)]

\* A slip: the table kept as a plain object, whose keys are coerced to
\* strings, so that the number 1 finds the entry stored under "1".
OnMessageLooseId(c, response) ==
    LET key == String(response.id[2])
    IN  IF ~response.parses THEN c
        ELSE IF key \notin DOMAIN c.pendingRequests THEN c
        ELSE LET i == c.pendingRequests[key]
                 p == [c.calls[i] EXCEPT !.timer = ClearTimeout(@)]
             IN  [c EXCEPT !.pendingRequests = MapDelete(@, key),
                           !.calls[i] =
                               IF response.error # NoError
                               THEN RejectCall(p, BridgeError(response.error.message))
                               ELSE ResolveCall(p, response.result)]

\* ws.on('message')
OnMessage(c, response) ==
    IF ~response.parses THEN c
    ELSE IF response.id \notin DOMAIN c.pendingRequests THEN c
    ELSE LET i == c.pendingRequests[response.id]
             p == [c.calls[i] EXCEPT !.timer = ClearTimeout(@)]
         IN  [c EXCEPT !.pendingRequests = MapDelete(@, response.id),
                       !.calls[i] =
                           IF response.error # NoError
                           THEN RejectCall(p, BridgeError(response.error.message))
                           ELSE ResolveCall(p, response.result)]

\* A slip: only the oldest pending call is rejected and removed.
OnCloseOldestOnly(c) ==
    IF DOMAIN c.pendingRequests = {} THEN [c EXCEPT !.ws = NULL]
    ELSE LET k == CHOOSE x \in DOMAIN c.pendingRequests :
                      \A y \in DOMAIN c.pendingRequests : x[2] <= y[2]
             i == c.pendingRequests[k]
         IN  [c EXCEPT !.ws = NULL,
                       !.calls[i] = RejectCall([@ EXCEPT !.timer = ClearTimeout(@)],
                                               ClosedError),
                       !.pendingRequests = MapDelete(@, k)]

\* A slip: the close handler rejects the calls and leaves their timers armed.
OnCloseKeepsTimers(c) ==
    [c EXCEPT !.ws = NULL,
              !.calls = [i \in Slots |->
                  IF \E k \in DOMAIN c.pendingRequests : c.pendingRequests[k] = i
                  THEN RejectCall(c.calls[i], ClosedError)
                  ELSE c.calls[i]],
              !.pendingRequests = EmptyMap]

\* ws.on('close')
OnClose(c) ==
    [c EXCEPT !.ws = NULL,
              !.calls = [i \in Slots |->
                  IF \E k \in DOMAIN c.pendingRequests : c.pendingRequests[k] = i
                  THEN RejectCall([c.calls[i] EXCEPT !.timer = ClearTimeout(@)], ClosedError)
                  ELSE c.calls[i]],
              !.pendingRequests = EmptyMap]

\* ws.on('error')
OnError(c, s) ==
    [c EXCEPT !.connectTimer[s] = ClearTimeout(@),
              !.ws = NULL,
              !.attempt[s] = RejectAttempt(@, ConnectError)]

\* The callback of the 5 s timer of the attempt: ws.close(), then reject.
\* Closing a socket that is still connecting makes it emit 'error' and then
\* 'close'; the 'error' is emitted either inside close() or on the next tick,
\* so either rejection may be the first, and only the first counts.
OnConnectTimeout(c, s, errorFirst) ==
    LET fired == [c EXCEPT !.connectTimer[s] = "fired", !.readyState[s] = "CLOSED"]
        timed == [fired EXCEPT !.attempt[s] = RejectAttempt(@, ConnectTimeoutError)]
    IN  IF errorFirst
        THEN OnClose([OnError(fired, s) EXCEPT
                        !.attempt[s] = RejectAttempt(@, ConnectTimeoutError)])
        ELSE OnClose(OnError(timed, s))

\* A slip: the timer rejects the call and leaves its entry in the table.
OnRequestTimeoutKeepsEntry(c, i) ==
    [c EXCEPT !.calls[i] = RejectCall([@ EXCEPT !.timer = "fired"],
                                      TimeoutError(c.calls[i].method, DefaultTimeoutMs))]

\* A slip: the timer removes the entry and rejects nothing.
OnRequestTimeoutNoReject(c, i) ==
    [c EXCEPT !.pendingRequests = MapDelete(@, c.calls[i].id),
              !.calls[i].timer = "fired"]

\* The callback of a request's timer (lines 115-118).
OnRequestTimeout(c, i) ==
    [c EXCEPT !.pendingRequests = MapDelete(@, c.calls[i].id),
              !.calls[i] = RejectCall([@ EXCEPT !.timer = "fired"],
                                      TimeoutError(c.calls[i].method, DefaultTimeoutMs))]

\* WebSocket.close(): an open socket starts the closing handshake.
WsClose(state) == IF state = "OPEN" THEN "CLOSING" ELSE state


(* ---------------------------------------------------------------------- *)
(* Calls made by the tool handlers                                         *)
(* ---------------------------------------------------------------------- *)
FreeSlots   == {i \in Slots : calls[i].st = "idle"}
FreeSockets == {s \in Sockets : readyState[s] = "UNUSED"}

\* Lines 43-52 of connect(): new WebSocket(url), the 5 s timer, the promise.
NewAttempt(c, s) ==
    [c EXCEPT !.readyState[s] = "CONNECTING",
              !.connectTimer[s] = "armed",
              !.attempt[s] = [status |-> "pending", reason |-> NoReason],
              !.connectPromise = s]

\* connect() called by slot i, which is left suspended on the attempt unless
\* the client is connected already.
\* A slip: connect() without the check of connectPromise.
CreatesSocketNoDedup(c) == ~isConnected(c)

\* Whether connect() constructs a socket in state c: it has passed both
\* early returns.
CreatesSocket(c) == ~isConnected(c) /\ c.connectPromise = NULL

ConnectBody(c, i, s) ==
    IF isConnected(c)
    THEN [c EXCEPT !.calls[i].st = "fulfilled"]
    ELSE IF CreatesSocket(c)
         THEN [NewAttempt(c, s) EXCEPT !.calls[i].st = "waiting"]
         ELSE [c EXCEPT !.calls[i].st = "waiting"]

\* client.connect()
Connect ==
    /\ FreeSlots # {}
    /\ CreatesSocket(Cur) => FreeSockets # {}
    /\ LET i == CHOOSE x \in FreeSlots : \A y \in FreeSlots : x <= y
           s == IF FreeSockets = {} THEN NULL
                ELSE CHOOSE x \in FreeSockets : \A y \in FreeSockets : x <= y
           c == [Cur EXCEPT !.calls[i].kind = "connect"]
       IN  Set(ConnectBody(c, i, s))

\* client.request(method, params)
Request(method) ==
    /\ FreeSlots # {}
    /\ CreatesSocket(Cur) => FreeSockets # {}
    /\ LET i == CHOOSE x \in FreeSlots : \A y \in FreeSlots : x <= y
           s == IF FreeSockets = {} THEN NULL
                ELSE CHOOSE x \in FreeSockets : \A y \in FreeSockets : x <= y
           c == [Cur EXCEPT !.calls[i].kind = "request", !.calls[i].method = method]
       IN  IF isConnected(c)
           THEN Set(SendRequest(c, i))
           ELSE Set(ConnectBody(c, i, s))

\* A slip: disconnect() forgets the socket without closing it.
DisconnectBodyNoClose(c) ==
    IF c.ws # NULL THEN [c EXCEPT !.ws = NULL] ELSE c

\* A slip: disconnect() also rejects and forgets every pending call.
DisconnectBodyRejectsPending(c) ==
    IF c.ws # NULL
    THEN [c EXCEPT !.readyState[c.ws] = WsClose(@), !.ws = NULL,
                   !.pendingRequests = EmptyMap,
                   !.calls = [i \in Slots |->
                                 IF c.calls[i].st = "pending" /\ c.calls[i].kind = "request"
                                 THEN RejectCall([c.calls[i] EXCEPT !.timer = ClearTimeout(@)],
                                                 ClosedError)
                                 ELSE c.calls[i]]]
    ELSE c

\* client.disconnect()
DisconnectBody(c) ==
    IF c.ws # NULL
    THEN [c EXCEPT !.readyState[c.ws] = WsClose(@), !.ws = NULL]
    ELSE c

Disconnect ==
    /\ Set(DisconnectBody(Cur))

(* ---------------------------------------------------------------------- *)
(* Socket events and timers                                                *)
(* ---------------------------------------------------------------------- *)
\* The handshake of socket s completes.
SocketOpen(s) ==
    /\ readyState[s] = "CONNECTING"
    /\ Set(Finally(OnOpen([Cur EXCEPT !.readyState[s] = "OPEN"], s), s))

\* The handshake of socket s fails: 'error', then 'close', in one turn.
ConnectFail(s) ==
    /\ readyState[s] = "CONNECTING"
    /\ Set(Finally(OnClose(OnError([Cur EXCEPT !.readyState[s] = "CLOSED"], s)), s))

\* No 'open' within 5 s.
ConnectTimeout(s) ==
    /\ connectTimer[s] = "armed"
    /\ \E errorFirst \in BOOLEAN :
           Set(Finally(OnConnectTimeout(Cur, s, errorFirst), s))

\* The peer starts the closing handshake on an open socket.
PeerClosing(s) ==
    /\ readyState[s] = "OPEN"
    /\ Set([Cur EXCEPT !.readyState[s] = "CLOSING"])

\* An established socket fails: 'error' now, 'close' later.
SocketError(s) ==
    /\ readyState[s] \in {"OPEN", "CLOSING"}
    /\ Set(OnError([Cur EXCEPT !.readyState[s] = "CLOSING"], s))

\* The connection of socket s is gone: 'close'.
SocketClose(s) ==
    /\ readyState[s] \in {"OPEN", "CLOSING"}
    /\ Set(OnClose([Cur EXCEPT !.readyState[s] = "CLOSED"]))

\* A text frame arrives on a socket that can still receive.  The handler is
\* the same closure over the client for every socket.
SocketMessage(frame) ==
    /\ {s \in Sockets : readyState[s] \in {"OPEN", "CLOSING"}} # {}
    /\ Set(OnMessage(Cur, frame))

\* The timer of the request in slot i fires.
RequestTimeout(i) ==
    /\ calls[i].timer = "armed"
    /\ Set(OnRequestTimeout(Cur, i))

Next ==
    \/ Connect
    \/ \E m \in Methods : Request(m)
    \/ Disconnect
    \/ \E s \in Sockets : SocketOpen(s)
    \/ \E s \in Sockets : ConnectFail(s)
    \/ \E s \in Sockets : ConnectTimeout(s)
    \/ \E s \in Sockets : PeerClosing(s)
    \/ \E s \in Sockets : SocketError(s)
    \/ \E s \in Sockets : SocketClose(s)
    \/ \E f \in Frames : SocketMessage(f)
    \/ \E i \in Slots : RequestTimeout(i)

Spec == Init /\ [][Next]_vars

\* A timer that is armed fires.
TimerFires ==
    \/ \E i \in Slots : RequestTimeout(i)
    \/ \E s \in Sockets : ConnectTimeout(s)

\* The responses to the requests the client can issue: a result or an error
\* under the id of the request.
Responses ==
    {f \in Frames : f.parses /\ \E n \in 1..MaxCalls : f.id = String(n)}

\* The client as the tool handlers use it: every call is a request(), and
\* the peer answers requests.
RequestNext ==
    \/ \E m \in Methods : Request(m)
    \/ Disconnect
    \/ \E s \in Sockets : SocketOpen(s)
    \/ \E s \in Sockets : ConnectFail(s)
    \/ \E s \in Sockets : ConnectTimeout(s)
    \/ \E s \in Sockets : PeerClosing(s)
    \/ \E s \in Sockets : SocketError(s)
    \/ \E s \in Sockets : SocketClose(s)
    \/ \E f \in Responses : SocketMessage(f)
    \/ \E i \in Slots : RequestTimeout(i)

\* The event loop runs the timers: while one is armed, one fires.
SpecFair == Init /\ [][RequestNext]_vars /\ WF_vars(TimerFires)

\* A text frame that JSON.parse rejects arrives on a socket that can still
\* receive: the catch clause of ws.on('message') runs.
UndecodableFrame ==
    /\ {s \in Sockets : readyState[s] \in {"OPEN", "CLOSING"}} # {}
    /\ SetClient(OnMessage(Cur, Garbage))
    /\ undecoded' = (undecoded \/ pendingRequests # EmptyMap)
    /\ UNCHANGED <<svars, tvars>>

NextDecode ==
    \/ Next
    \/ UndecodableFrame

\* The client, with the frames that fail to decode recorded.
SpecDecode == Init /\ [][NextDecode]_vars


(* ---------------------------------------------------------------------- *)
(* Properties of the bridge client                                         *)
(* ---------------------------------------------------------------------- *)
\* The calls that have an entry in the pending table.
PendingSlots == {pendingRequests[k] : k \in DOMAIN pendingRequests}

\* A step in which a socket's 'close' handler runs.
CloseEvent == \E s \in Sockets : SocketClose(s) \/ ConnectFail(s) \/ ConnectTimeout(s)

\* C1: when a close event fires, every call that was pending is rejected with
\* the 'Bridge connection closed' error, its deadline timer is cancelled, and
\* the pending table is empty right after the handler.
C1_CloseRejectsAllPending ==
    [][CloseEvent =>
          /\ \A i \in PendingSlots :
                /\ calls'[i].st = "rejected"
                /\ calls'[i].reason = ClosedError
                /\ calls'[i].timer = "cleared"
          /\ pendingRequests' = EmptyMap]_vars

\* Three calls were pending together and all three were rejected by the close.
C1_Witness ==
    /\ Cardinality({i \in Slots : /\ calls[i].st = "rejected"
                                  /\ calls[i].reason = ClosedError
                                  /\ calls[i].timer = "cleared"}) >= 3
    /\ pendingRequests = EmptyMap

\* C2: a response settles only the call whose id it carries: that call gets the
\* response's result and leaves the table, and every other call, with its
\* timer, is exactly as before, whatever the order of the requests.
C2_ResponseSettlesOnlyItsCall ==
    [][\A f \in Frames :
          (f.parses /\ f.id \in DOMAIN pendingRequests /\ SocketMessage(f)) =>
              LET i == pendingRequests[f.id]
              IN  /\ calls[i].id = f.id
                  /\ f.error = NoError =>
                        calls'[i].st = "fulfilled" /\ calls'[i].value = f.result
                  /\ calls'[i].st # "pending"
                  /\ \A j \in Slots \ {i} : calls'[j] = calls[j]
                  /\ pendingRequests' = MapDelete(pendingRequests, f.id)]_vars

\* B, sent after A on the same socket, is resolved while A is still pending
\* with its timer armed.
C2_Witness ==
    \E a, b \in Slots :
        /\ calls[a].st = "pending" /\ calls[a].timer = "armed"
        /\ calls[b].st = "fulfilled" /\ calls[b].value \in Results
        /\ calls[a].id[2] < calls[b].id[2]
        /\ calls[a].sock = calls[b].sock
        /\ calls[a].id \in DOMAIN pendingRequests

\* The ids of the calls whose deadline has fired.
ExpiredIds == {calls[i].id : i \in {j \in Slots : calls[j].timer = "fired"}}

\* C3: when a call's deadline fires, that call alone is removed from the table
\* and rejected with the timeout error, nothing is sent and no socket changes;
\* a response that later carries the expired id settles and removes nothing.
C3_TimeoutIsolation ==
    [][/\ \A i \in Slots : RequestTimeout(i) =>
             /\ calls'[i].st = "rejected"
             /\ calls'[i].reason = TimeoutError(calls[i].method, DefaultTimeoutMs)
             /\ \A j \in Slots \ {i} : calls'[j] = calls[j]
             /\ pendingRequests' = MapDelete(pendingRequests, calls[i].id)
             /\ calls[i].id \in DOMAIN pendingRequests
             /\ sent' = sent
             /\ readyState' = readyState
       /\ \/ calls' = calls /\ pendingRequests' = pendingRequests
          \/ \A f \in Frames : ~(f.id \in ExpiredIds /\ SocketMessage(f))]_vars

\* One call has timed out while another is still pending on a socket that can
\* still deliver the late response.
C3_Witness ==
    \E a, b \in Slots :
        /\ calls[a].timer = "fired" /\ calls[a].st = "rejected"
        /\ calls[a].reason = TimeoutError(calls[a].method, DefaultTimeoutMs)
        /\ calls[b].st = "pending" /\ calls[b].timer = "armed"
        /\ calls[a].sock = calls[b].sock
        /\ readyState[calls[a].sock] = "OPEN"


\* A step that is a call of connect(), directly or from request().
ConnectCall == Connect \/ \E m \in Methods : Request(m)

Connecting == {s \in Sockets : readyState[s] = "CONNECTING"}
InFlight   == {s \in Sockets : attempt[s].status = "pending"}

\* C4: connect() constructs a socket only when the client is not connected and
\* no attempt is in flight; called while connected it constructs none; called
\* while an attempt is in flight it waits for that attempt and gets its
\* outcome; so at most one attempt is in progress at any time.
C4_ConnectDeduplicated ==
    /\ [](/\ Cardinality(Connecting) <= 1
          /\ InFlight = Connecting
          /\ InFlight = IF connectPromise = NULL THEN {} ELSE {connectPromise})
    /\ [][/\ (\E s \in Sockets : readyState[s] = "UNUSED" /\ readyState'[s] # "UNUSED") =>
                /\ ~isConnected(Cur)
                /\ connectPromise = NULL
                /\ Cardinality({s \in Sockets : readyState'[s] # readyState[s]}) = 1
          /\ (ConnectCall /\ isConnected(Cur)) =>
                /\ readyState' = readyState
                /\ connectPromise' = connectPromise
                /\ \A i \in Slots : calls'[i].st # "waiting"
          /\ (ConnectCall /\ connectPromise # NULL) =>
                /\ readyState' = readyState
                /\ connectPromise' = connectPromise
                /\ \E i \in Slots : calls[i].st = "idle" /\ calls'[i].st = "waiting"
          /\ (connectPromise # NULL /\ connectPromise' # connectPromise) =>
                LET a == attempt'[connectPromise]
                IN  /\ a.status \in {"fulfilled", "rejected"}
                    /\ \A i \in Slots : calls[i].st = "waiting" =>
                          IF a.status = "rejected"
                          THEN calls'[i].st = "rejected" /\ calls'[i].reason = a.reason
                          ELSE IF calls[i].kind = "connect"
                               THEN calls'[i].st = "fulfilled"
                               ELSE calls'[i].st = "pending" /\ calls'[i].sock = connectPromise
         ]_vars

\* A connect() and a request() wait together on the one attempt in flight,
\* and only one socket has been constructed.
C4_Witness ==
    /\ \E i, j \in Slots : /\ calls[i].st = "waiting" /\ calls[i].kind = "connect"
                           /\ calls[j].st = "waiting" /\ calls[j].kind = "request"
    /\ Cardinality({s \in Sockets : readyState[s] # "UNUSED"}) = 1
    /\ Cardinality(Connecting) = 1

\* C5: at most one socket constructed by the client is Connecting or Open.
C5_AtMostOneLiveSocket ==
    Cardinality({s \in Sockets : readyState[s] \in {"CONNECTING", "OPEN"}}) <= 1

\* The client holds no socket and has no attempt in flight.
Disconnected == ws = NULL /\ connectPromise = NULL

\* C6 as stated: the client is never Disconnected while calls are pending.
C6_NeverDisconnectedWithPending ==
    ~(Disconnected /\ pendingRequests # EmptyMap)

\* C6 as amended: the client is Disconnected with calls still pending only while
\* a socket it constructed is still Closing, that is, before the close event
\* that rejects those calls has been delivered.
C6_DisconnectedWithPendingOnlyWhileClosing ==
    (Disconnected /\ pendingRequests # EmptyMap) =>
        \E s \in Sockets : readyState[s] = "CLOSING"

\* After disconnect(): no socket, no attempt, a call still pending, and the
\* closed socket still Closing.
C6_Witness ==
    /\ Disconnected
    /\ \E i \in PendingSlots :
          /\ calls[i].st = "pending" /\ calls[i].timer = "armed"
          /\ readyState[calls[i].sock] = "CLOSING"

\* Whether an error message contains the ws://host:port endpoint.
NamesEndpoint(e) == \E k \in 1..Len(e.message) : e.message[k] = Url

\* C7: when a connection attempt fails, by a socket error or by the 5 s timer,
\* every caller waiting on it is rejected with an error that names the
\* endpoint, and afterwards the client has no socket and no attempt in flight,
\* so that the next connect() constructs a socket.
C7_FailedAttemptRejectsAndResets ==
    [][\A s \in Sockets : (ConnectFail(s) \/ ConnectTimeout(s)) =>
          /\ \A i \in Slots : calls[i].st = "waiting" =>
                calls'[i].st = "rejected" /\ NamesEndpoint(calls'[i].reason)
          /\ attempt'[s].status = "rejected" /\ NamesEndpoint(attempt'[s].reason)
          /\ ws' = NULL
          /\ connectPromise' = NULL
          /\ readyState'[s] = "CLOSED"
          /\ connectTimer'[s] # "armed"
          /\ Connecting' = {}]_vars

\* A request was rejected by a failed attempt, and a later request went out
\* on a socket constructed afterwards and was answered.
C7_Witness ==
    \E i, j \in Slots :
        /\ i < j
        /\ calls[i].st = "rejected" /\ calls[i].kind = "request"
        /\ calls[i].reason \in {ConnectError, ConnectTimeoutError}
        /\ calls[j].st = "fulfilled" /\ calls[j].kind = "request"
        /\ calls[j].sock # NULL

\* C8: ids are strictly increasing in allocation order and never repeat, also
\* across reconnects; each entry of the pending table is stored under the id
\* of its own call, so no two entries share an id.
C8_IdsStrictlyIncrease ==
    /\ \A k, l \in 1..Len(sent) : k < l => sent[k].id[2] < sent[l].id[2]
    /\ \A k \in 1..Len(sent) : sent[k].id[2] <= requestId /\ sent[k].id[1] = "string"
    /\ \A i, j \in Slots : (i # j /\ calls[i].id # NoId) => calls[i].id # calls[j].id
    /\ \A k \in DOMAIN pendingRequests : calls[pendingRequests[k]].id = k
    /\ \A k, l \in DOMAIN pendingRequests :
          k # l => pendingRequests[k] # pendingRequests[l]

\* Ids were allocated on two different sockets, before and after a reconnect,
\* with the earlier call already settled.
C8_Witness ==
    \E k, l \in 1..Len(sent) :
        /\ k < l
        /\ sent[k].sock # sent[l].sock
        /\ sent[k].id \notin DOMAIN pendingRequests
        /\ sent[l].id \in DOMAIN pendingRequests

\* C9: a response whose id matches no entry of the pending table changes
\* nothing: not the table, not a timer, not the state of any call.
C9_UnmatchedResponseChangesNothing ==
    [][\/ pendingRequests' = pendingRequests /\ calls' = calls
       \/ \A f \in Frames :
             ~(f.parses /\ f.id \notin DOMAIN pendingRequests /\ SocketMessage(f))]_vars

\* A call was rejected by a close, so its id is in no entry, while a later
\* call is pending on a socket that can deliver a response with the old id.
C9_Witness ==
    \E a, b \in Slots :
        /\ calls[b].st = "rejected" /\ calls[b].reason = ClosedError
        /\ calls[b].id \notin DOMAIN pendingRequests
        /\ calls[a].st = "pending" /\ calls[a].timer = "armed"
        /\ readyState[calls[a].sock] = "OPEN"

\* C10: an error response rejects exactly the call with its id, gives the
\* caller both the code and the message of the error, and leaves every other
\* call as it was.
C10_ErrorResponseGivesCodeAndMessage ==
    [][\A f \in Frames :
          (f.parses /\ f.error # NoError /\ f.id \in DOMAIN pendingRequests
                    /\ SocketMessage(f)) =>
              LET i == pendingRequests[f.id]
                  e == calls'[i].reason
              IN  /\ calls'[i].st = "rejected"
                  /\ \E k \in 1..Len(e.message) : e.message[k] = f.error.message
                  /\ \A j \in Slots \ {i} : calls'[j] = calls[j]
                  /\ "code" \in DOMAIN e
                  /\ e.code = f.error.code]_vars

\* An error that names none of the other failures of the client: not a closed
\* connection, a failed or timed-out connect, a request timeout, an error
\* response or a send on a missing socket.
IsDecodeError(e) ==
    /\ e \notin {NoReason, ClosedError, ConnectTimeoutError, ConnectError,
                  SendOnNullError}
    /\ e \notin {BridgeError(t) : t \in Messages}
    /\ e \notin {TimeoutError(t, DefaultTimeoutMs) : t \in Methods}

\* C11: once a frame has failed to decode while a call was pending, some
\* caller has been given an error of its own kind, distinct from a connect
\* failure and from a timeout.
C11_DecodeFailureReported ==
    undecoded =>
        \E i \in Slots : calls[i].st = "rejected" /\ IsDecodeError(calls[i].reason)

\* A call that was pending before the step and is settled after it was settled
\* by the close handler, by its own timer or by a response.
SettledByItsOwnEvent(i) ==
    \/ calls'[i].st = "rejected" /\ calls'[i].reason = ClosedError
    \/ calls'[i].st = "rejected" /\ calls'[i].timer = "fired" /\ calls[i].timer = "armed"
    \/ calls'[i].timer = "cleared" /\ calls[i].id \in DOMAIN pendingRequests
          /\ calls[i].id \notin DOMAIN pendingRequests'

\* C12: in every state a disconnect() would leave the pending table, the
\* calls, the sent frames and the id counter as they are, and a second
\* disconnect() right after it would change nothing at all; a request that
\* leaves the table does so in a step of the close handler, of its own
\* timer or of a response, never in a step of disconnect().
C12_DisconnectIdempotentAndSettlesNothing ==
    /\ [](LET d == DisconnectBody(Cur)
          IN  /\ DisconnectBody(d) = d
              /\ d.pendingRequests = pendingRequests
              /\ d.calls = calls
              /\ d.sent = sent
              /\ d.requestId = requestId)
    /\ [][\A i \in PendingSlots :
              calls'[i] # calls[i] =>
                  /\ SettledByItsOwnEvent(i)
                  /\ ~Disconnect]_vars

\* disconnect() was called with a request pending and a new attempt has been
\* started since: the request is still pending on the socket left Closing.
C12_Witness ==
    /\ ws = NULL /\ connectPromise # NULL
    /\ \E i \in PendingSlots :
          /\ calls[i].st = "pending" /\ calls[i].timer = "armed"
          /\ calls[i].kind = "request"
          /\ readyState[calls[i].sock] = "CLOSING"


(* ---------------------------------------------------------------------- *)
(* The bridge server of the editor plugin (bridge_server.gd)               *)
(* ---------------------------------------------------------------------- *)
ParseError     == -32700
InvalidRequest == -32600

\* A slip: a key that is absent reads as the number 0, whatever the default.
GetDefaultsToZero(dict, key, default) ==
    IF key \in DOMAIN dict THEN dict[key] ELSE <<"float", 0>>

\* dict.get(key, default)
Get(dict, key, default) == IF key \in DOMAIN dict THEN dict[key] ELSE default

\* The id "0" that stands in for a missing id.
DefaultId == String(0)

\* str(v) of a value that is a string already.
str(v) == v

EmptyDict == [x \in {} |-> 0]

\* The methods of _handlers that the clients of the model call: one with an
\* immediate result, the deferred one, and one that can fail.
Registry == {"ping", "capture_screenshot", "set_node_property"}

\* Node paths that tree.root.get_node_or_null finds.
NodePaths == {"/root"}

\* Text frames.  JSON.parse fails on one, gives an array for another and a
\* Dictionary for the rest.
NotJson   == [json |-> "invalid", msg |-> EmptyDict]
NotObject == [json |-> "array", msg |-> EmptyDict]
Obj(msg)  == [json |-> "object", msg |-> msg]

\* Requests for registered methods that a client may send as frame number n.
Requests(n) ==
    { Obj([id |-> String(n), method |-> "ping", params |-> EmptyDict]),
      Obj([id |-> String(n), method |-> "capture_screenshot",
           params |-> [source |-> "game"]]),
      Obj([id |-> String(n), method |-> "capture_screenshot",
           params |-> [source |-> "editor"]]) }

\* Texts that are not a request for a registered method: no JSON, no
\* method, an empty method, an unknown method.
Refused(n) ==
    { NotJson,
      Obj([id |-> String(n), method |-> ""]),
      Obj([id |-> String(n)]),
      Obj([id |-> String(n), method |-> "does_not_exist", params |-> EmptyDict]) }

\* Requests for set_node_property: of a node that exists, of one that does
\* not, and without the name of a property.
PropertyRequests(n) ==
    { Obj([id |-> String(n), method |-> "set_node_property",
           params |-> [node_path |-> "/root", property |-> "visible"]]),
      Obj([id |-> String(n), method |-> "set_node_property",
           params |-> [node_path |-> "/root/Missing", property |-> "visible"]]),
      Obj([id |-> String(n), method |-> "set_node_property",
           params |-> [node_path |-> "/root"]]) }

\* The server's state as one value, so that its functions compose.
SCur == [tcp |-> _tcp_server, peers |-> _peers, state |-> ready_state,
         packets |-> packets, handled |-> handled, awaiting |-> awaiting,
         capturing |-> capturing, outbox |-> outbox]

SetServer(d) ==
    /\ _tcp_server' = d.tcp
    /\ _peers' = d.peers
    /\ ready_state' = d.state
    /\ packets' = d.packets
    /\ handled' = d.handled
    /\ awaiting' = d.awaiting
    /\ capturing' = d.capturing
    /\ outbox' = d.outbox

\* peer.send_text(JSON.stringify(response)): the call is recorded with the
\* ready state the peer has when it is made.
SendText(d, p, response) ==
    [d EXCEPT !.outbox = Append(@, [peer |-> p, state |-> d.state[p],
                                    response |-> response])]

\* _send_result(peer, id, result)
_send_result(d, p, id, result) ==
    SendText(d, p, [id |-> id, result |-> result])

\* _send_error(peer, id, code, message)
_send_error(d, p, id, code, message) ==
    SendText(d, p, [id |-> id, error |-> [code |-> code, message |-> message]])

\* _handle_ping(_params)
_handle_ping(params) ==
    [status |-> "ok", server |-> "mechanical-turk-mcp", version |-> "0.1.0"]

\* level_handler.handle_set_property(params)
handle_set_property(params) ==
    LET node_path == Get(params, "node_path", "")
        property  == Get(params, "property", "")
    IN  IF node_path = "" \/ property = ""
        THEN [error |-> <<"node_path and property are required">>]
        ELSE IF node_path \notin NodePaths
        THEN [error |-> <<"Node not found: ", node_path>>]
        ELSE [status |-> "ok", node |-> node_path, property |-> property]

\* The value handle() returns: a Dictionary holding the signal.
Deferred == [_deferred |-> "screenshot_ready"]

\* handler.call(params): the invocation is recorded; capture_screenshot
\* starts a _capture_deferred coroutine, which stops at its first await.
Call(d, p, id, method, params) ==
    LET h == [d EXCEPT !.handled = Append(@, [peer |-> p, id |-> id, method |-> method,
                                               params |-> params])]
    IN  CASE method = "ping" ->
                [d |-> h, result |-> _handle_ping(params)]
          [] method = "set_node_property" ->
                [d |-> h, result |-> handle_set_property(params)]
          [] method = "capture_screenshot" ->
                [d |-> [h EXCEPT !.capturing = Append(@, params)],
                 result |-> Deferred]

\* result is Dictionary and result.has("_deferred")
IsDeferred(result) == "_deferred" \in DOMAIN result

\* A slip: the two invalid-request checks answer with each other's code.
_handle_message_swapped_codes(d, p, text) ==
    IF text.json = "invalid"
    THEN _send_error(d, p, DefaultId, ParseError, <<"Parse error: ">>)
    ELSE IF text.json # "object"
    THEN _send_error(d, p, DefaultId, InvalidRequest, <<"Invalid request: expected object">>)
    ELSE LET id     == str(Get(text.msg, "id", DefaultId))
             method == Get(text.msg, "method", "")
         IN  IF method = ""
             THEN _send_error(d, p, id, MethodNotFound, <<"Missing method">>)
             ELSE _send_error(d, p, id, InvalidRequest, <<"Method not found: ", method>>)

\* A slip: a text that does not parse is dropped without an answer.
_handle_message_drops_unparsable(d, p, text) ==
    IF text.json # "object"
    THEN d
    ELSE LET id     == str(Get(text.msg, "id", DefaultId))
             method == Get(text.msg, "method", "")
             params == Get(text.msg, "params", EmptyDict)
         IN  IF method = ""
             THEN _send_error(d, p, id, InvalidRequest, <<"Missing method">>)
             ELSE IF method \notin Registry
             THEN _send_error(d, p, id, MethodNotFound, <<"Method not found: ", method>>)
             ELSE LET r == Call(d, p, id, method, params)
                  IN  IF IsDeferred(r.result)
                      THEN [r.d EXCEPT !.awaiting = Append(@, [peer |-> p, id |-> id])]
                      ELSE _send_result(r.d, p, id, r.result)

\* A slip: the coroutine forgets the peer once its signal has been awaited.
_handle_message_never_answers_deferred(d, p, text) ==
    IF text.json = "invalid"
    THEN _send_error(d, p, DefaultId, ParseError, <<"Parse error: ">>)
    ELSE IF text.json # "object"
    THEN _send_error(d, p, DefaultId, InvalidRequest, <<"Invalid request: expected object">>)
    ELSE LET id     == str(Get(text.msg, "id", DefaultId))
             method == Get(text.msg, "method", "")
             params == Get(text.msg, "params", EmptyDict)
         IN  IF method = ""
             THEN _send_error(d, p, id, InvalidRequest, <<"Missing method">>)
             ELSE IF method \notin Registry
             THEN _send_error(d, p, id, MethodNotFound, <<"Method not found: ", method>>)
             ELSE LET r == Call(d, p, id, method, params)
                  IN  IF IsDeferred(r.result)
                      THEN r.d
                      ELSE _send_result(r.d, p, id, r.result)

\* _handle_message(peer, data), up to its await: a text that is not a request
\* for a registered method is answered with an error; otherwise the handler is
\* called and its result is sent at once, unless it is the deferred marker:
\* then the coroutine awaits the signal and control returns to _process.
_handle_message(d, p, text) ==
    IF text.json = "invalid"
    THEN _send_error(d, p, DefaultId, ParseError, <<"Parse error: ">>)
    ELSE IF text.json # "object"
    THEN _send_error(d, p, DefaultId, InvalidRequest, <<"Invalid request: expected object">>)
    ELSE LET id     == str(Get(text.msg, "id", DefaultId))
             method == Get(text.msg, "method", "")
             params == Get(text.msg, "params", EmptyDict)
         IN  IF method = ""
             THEN _send_error(d, p, id, InvalidRequest, <<"Missing method">>)
             ELSE IF method \notin Registry
             THEN _send_error(d, p, id, MethodNotFound, <<"Method not found: ", method>>)
             ELSE LET r == Call(d, p, id, method, params)
                  IN  IF IsDeferred(r.result)
                      THEN [r.d EXCEPT !.awaiting = Append(@, [peer |-> p, id |-> id])]
                      ELSE _send_result(r.d, p, id, r.result)

\* _handle_message after its await: _send_result(peer, id, deferred_result).
RECURSIVE ResumeAwaiting(_, _, _)
ResumeAwaiting(d, waiters, value) ==
    IF waiters = <<>> THEN d
    ELSE ResumeAwaiting(_send_result(d, Head(waiters).peer, Head(waiters).id, value),
                        Tail(waiters), value)

\* screenshot_ready.emit(value): every coroutine that awaits the signal of
\* the one screenshot handler is resumed, in the order of the awaits.
screenshot_ready_emit(d, value) ==
    ResumeAwaiting([d EXCEPT !.awaiting = <<>>], d.awaiting, value)

\* _capture_deferred(params) after its await: the viewport named by source
\* is captured and the signal is emitted with the image.
Screenshot(params) ==
    LET source == Get(params, "source", "game")
    IN  [image_base64 |-> <<"png of the viewport of ", source>>, source |-> source]

_capture_deferred(d, params) ==
    screenshot_ready_emit(d, Screenshot(params))

\* get_tree().process_frame is emitted: the _capture_deferred coroutines are
\* resumed in the order in which they awaited it.
RECURSIVE ResumeCaptures(_, _)
ResumeCaptures(d, waiters) ==
    IF waiters = <<>> THEN d
    ELSE ResumeCaptures(_capture_deferred(d, Head(waiters)), Tail(waiters))

process_frame_emit(d) ==
    ResumeCaptures([d EXCEPT !.capturing = <<>>], d.capturing)

\* What the network has done to a connection when the server polls it:
\* nothing new, the TCP connection was made, the client's handshake request
\* arrived, its close frame arrived, the connection is gone.
NetEvents == {"quiet", "tcp", "up", "closing", "down"}

\* peer.poll(): the peer learns what the network has done since the last
\* poll.  A closed peer stays closed.
Poll(state, net) ==
    IF state = "CLOSED" THEN "CLOSED"
    ELSE CASE net = "down"    -> "CLOSED"
           [] net = "closing" -> IF state = "CONNECTING" THEN "CLOSED" ELSE "CLOSING"
           [] net = "up"      -> IF state = "CONNECTING" THEN "OPEN" ELSE state
           [] OTHER           -> state

\* peer.close(): an open peer starts the closing handshake, a connecting one
\* is closed at once.
PeerClose(state) ==
    CASE state = "OPEN"       -> "CLOSING"
      [] state = "CONNECTING" -> "CLOSED"
      [] OTHER                -> state

\* Connections that _tcp_server.is_connection_available() reports.
Available(d, net) == {p \in PeerIds : net[p] # "quiet" /\ d.state[p] = "NEW"}

\* while _tcp_server.is_connection_available(): take_connection(),
\* accept_stream(conn), _peers.append(peer)
RECURSIVE AcceptConnections(_, _)
AcceptConnections(d, net) ==
    IF Available(d, net) = {} THEN d
    ELSE LET p == CHOOSE q \in Available(d, net) : \A r \in Available(d, net) : q <= r
         IN  AcceptConnections([d EXCEPT !.state[p] = "CONNECTING",
                                         !.peers = Append(@, p)], net)

\* A slip: no further packet is read while a call awaits its signal.
RECURSIVE DrainPacketsBlocking(_, _)
DrainPacketsBlocking(d, p) ==
    IF d.packets[p] = <<>> \/ d.awaiting # <<>> THEN d
    ELSE DrainPacketsBlocking(_handle_message([d EXCEPT !.packets[p] = Tail(@)], p,
                                              Head(d.packets[p])), p)

\* A slip: the packet received last is read first.
RECURSIVE DrainPacketsLastFirst(_, _)
DrainPacketsLastFirst(d, p) ==
    IF d.packets[p] = <<>> THEN d
    ELSE LET n == Len(d.packets[p])
         IN  DrainPacketsLastFirst(
                 _handle_message([d EXCEPT !.packets[p] = SubSeq(@, 1, n - 1)], p,
                                 d.packets[p][n]), p)

\* while peer.get_available_packet_count() > 0: _handle_message(peer, ...)
RECURSIVE DrainPackets(_, _)
DrainPackets(d, p) ==
    IF d.packets[p] = <<>> THEN d
    ELSE DrainPackets(_handle_message([d EXCEPT !.packets[p] = Tail(@)], p,
                                      Head(d.packets[p])), p)

\* A slip: a peer that is closing is read as an open one is.
RECURSIVE PollPeersReadsClosing(_, _, _, _)
PollPeersReadsClosing(d, i, to_remove, net) ==
    IF i > Len(d.peers) THEN [d |-> d, to_remove |-> to_remove]
    ELSE LET p == d.peers[i]
             polled == [d EXCEPT !.state[p] = Poll(@, net[p])]
         IN  CASE polled.state[p] \in {"OPEN", "CLOSING"} ->
                    PollPeersReadsClosing(DrainPackets(polled, p), i + 1, to_remove, net)
               [] polled.state[p] = "CLOSED" ->
                    PollPeersReadsClosing(polled, i + 1, Append(to_remove, i), net)
               [] OTHER ->
                    PollPeersReadsClosing(polled, i + 1, to_remove, net)

\* for i in range(_peers.size()): poll the peer, read it if it is open, note
\* its index if it is closed.
RECURSIVE PollPeers(_, _, _, _)
PollPeers(d, i, to_remove, net) ==
    IF i > Len(d.peers) THEN [d |-> d, to_remove |-> to_remove]
    ELSE LET p == d.peers[i]
             polled == [d EXCEPT !.state[p] = Poll(@, net[p])]
         IN  CASE polled.state[p] = "OPEN" ->
                    PollPeers(DrainPackets(polled, p), i + 1, to_remove, net)
               [] polled.state[p] = "CLOSED" ->
                    PollPeers(polled, i + 1, Append(to_remove, i), net)
               [] OTHER ->
                    PollPeers(polled, i + 1, to_remove, net)

\* _peers.remove_at(i); an index outside the array is an error and removes
\* nothing.
RemoveAt(peers, i) ==
    IF i \in 1..Len(peers)
    THEN SubSeq(peers, 1, i - 1) \o SubSeq(peers, i + 1, Len(peers))
    ELSE peers

\* A slip: the closed peers are removed from the lowest index upwards.
RECURSIVE RemoveClosedForward(_, _, _)
RemoveClosedForward(peers, to_remove, k) ==
    IF k = 0 \/ to_remove = <<>> THEN peers
    ELSE RemoveClosedForward(RemoveAt(peers, Head(to_remove)), Tail(to_remove), k - 1)

\* for i in range(to_remove.size() - 1, -1, -1): _peers.remove_at(to_remove[i])
RECURSIVE RemoveClosed(_, _, _)
RemoveClosed(peers, to_remove, k) ==
    IF k = 0 THEN peers
    ELSE RemoveClosed(RemoveAt(peers, to_remove[k]), to_remove, k - 1)

\* _process(_delta): one tick of the server.  What a peer dropped from the
\* array had received and not read is never read.
ProcessBody(d, net) ==
    IF d.tcp = "null" THEN d
    ELSE LET r == PollPeers(AcceptConnections(d, net), 1, <<>>, net)
             kept == RemoveClosed(r.d.peers, r.to_remove, Len(r.to_remove))
         IN  [r.d EXCEPT !.peers = kept,
                         !.packets = [p \in PeerIds |->
                                         IF \E i \in 1..Len(kept) : kept[i] = p
                                         THEN @[p] ELSE <<>>]]

\* peer.close() for every peer of the array.
RECURSIVE CloseAll(_, _)
CloseAll(state, peers) ==
    IF peers = <<>> THEN state
    ELSE CloseAll([state EXCEPT ![Head(peers)] = PeerClose(@)], Tail(peers))

\* stop_server()
stop_server(d) ==
    [d EXCEPT !.state = CloseAll(@, d.peers),
              !.peers = <<>>,
              !.packets = [p \in PeerIds |-> <<>>],
              !.tcp = "null"]

(* The clients, the network and the engine                                 *)
(* ---------------------------------------------------------------------- *)
\* A text frame of a client arrives on a connection that the server has seen
\* open.
ClientSends(p, texts) ==
    /\ _tcp_server = "listening"
    /\ ready_state[p] = "OPEN"
    /\ next_id <= MaxTexts
    /\ \E text \in texts :
          packets' = [packets EXCEPT ![p] = Append(@, text)]
    /\ next_id' = next_id + 1
    /\ UNCHANGED <<_tcp_server, _peers, ready_state, handled, awaiting,
                   capturing, outbox, node, cvars, tvars>>

\* The news the network can have for a peer in a given state: a connection
\* is made, with or without its handshake request; the handshake request
\* arrives or the connection is lost; an open connection gets a close frame or
\* is lost; a closing one is lost.
News(state) ==
    CASE state = "NEW"        -> {"quiet", "tcp", "up"}
      [] state = "CONNECTING" -> {"quiet", "up", "down"}
      [] state = "OPEN"       -> {"quiet", "closing", "down"}
      [] state = "CLOSING"    -> {"quiet", "down"}
      [] OTHER                -> {"quiet"}

\* What the network may have done to the connections by the next tick.
\* Connections are numbered in the order in which they are made, and a
\* server that listens no more accepts and polls nothing.
NetInputs ==
    {net \in [PeerIds -> NetEvents] :
        \A p \in PeerIds :
            /\ net[p] \in News(ready_state[p])
            /\ _tcp_server = "null" => net[p] = "quiet"
            /\ (ready_state[p] = "NEW" /\ net[p] # "quiet") =>
                  \A q \in PeerIds : q < p =>
                      (ready_state[q] # "NEW" \/ net[q] # "quiet")}

\* The scene tree emits process_frame at the start of a frame, before any
\* node's _process: the captures started in the previous frame complete.
ProcessFrame ==
    /\ node # "freed"
    /\ capturing # <<>>
    /\ SetServer(process_frame_emit(SCur))
    /\ UNCHANGED <<node, next_id, cvars, tvars>>

\* The engine calls _process of the server node, once per frame and after
\* process_frame.
_process ==
    /\ node # "freed"
    /\ capturing = <<>>
    /\ \E net \in NetInputs : SetServer(ProcessBody(SCur, net))
    /\ UNCHANGED <<node, next_id, cvars, tvars>>

\* The plugin's _exit_tree(): bridge_server.stop_server() and
\* bridge_server.queue_free().
_exit_tree ==
    /\ node = "alive"
    /\ SetServer(stop_server(SCur))
    /\ node' = "queued"
    /\ UNCHANGED <<next_id, cvars, tvars>>

\* The scene tree flushes its delete queue, at the end of a physics step or
\* of a frame: the queued node is freed and its coroutines are never resumed.
FlushDeleteQueue ==
    /\ node = "queued"
    /\ node' = "freed"
    /\ awaiting' = <<>>
    /\ capturing' = <<>>
    /\ UNCHANGED <<_tcp_server, _peers, ready_state, packets, handled,
                   outbox, next_id, cvars, tvars>>

\* The engine's part: frames, ticks and the end of the plugin.
EngineNext ==
    \/ ProcessFrame
    \/ _process
    \/ _exit_tree
    \/ FlushDeleteQueue

\* The server with clients that send requests for registered methods.
ServerNext ==
    \/ \E p \in PeerIds : ClientSends(p, Requests(next_id))
    \/ EngineNext

SpecServer == Init /\ [][ServerNext]_vars

\* The server with clients that send what it cannot carry out.
RefusedNext ==
    \/ \E p \in PeerIds : ClientSends(p, Refused(next_id))
    \/ _process

SpecRefused == Init /\ [][RefusedNext]_vars

\* The server with clients that set properties of nodes.
PropertyNext ==
    \/ \E p \in PeerIds : ClientSends(p, PropertyRequests(next_id))
    \/ _process

SpecProperty == Init /\ [][PropertyNext]_vars

\* The engine runs frames for as long as it lives.
SpecServerFair == SpecServer /\ WF_vars(ProcessFrame)


(* ---------------------------------------------------------------------- *)
(* Properties of the bridge server                                         *)
(* ---------------------------------------------------------------------- *)
\* The send_text calls made for peer p with id as the id of the response.
ResponsesTo(p, id) ==
    {i \in 1..Len(outbox) : outbox[i].peer = p /\ outbox[i].response.id = id}

Captures == {k \in 1..Len(handled) : handled[k].method = "capture_screenshot"}

\* C13: every capture_screenshot call, also one dispatched while another is
\* in flight, is answered at most once, and the response sent to its peer with
\* its id is a result that carries the screenshot its own invocation produced.
C13_DeferredCallsGetTheirOwnValue ==
    \A k \in Captures :
        LET h == handled[k]
        IN  /\ Cardinality(ResponsesTo(h.peer, h.id)) <= 1
            /\ \A i \in ResponsesTo(h.peer, h.id) :
                  /\ "result" \in DOMAIN outbox[i].response
                  /\ outbox[i].response.result = Screenshot(h.params)

\* The step is a tick of the server: no coroutine waits for process_frame, no
\* client sends and the node stays as it is.
Tick == capturing = <<>> /\ next_id' = next_id /\ node' = node

\* C14: a call whose coroutine still awaits the signal has no response in the
\* outbox; and in every tick each open peer is read until it has no packet
\* left, and every ping dispatched in the tick is answered in the tick, also
\* when a capture dispatched before it in the same tick is still awaiting.
C14_DeferredCallBlocksNothing ==
    /\ [](\A a \in 1..Len(awaiting) :
              ResponsesTo(awaiting[a].peer, awaiting[a].id) = {})
    /\ [][Tick =>
              /\ \A p \in PeerIds : ready_state'[p] = "OPEN" => packets'[p] = <<>>
              /\ \A k \in (Len(handled) + 1)..Len(handled') :
                    handled'[k].method = "ping" =>
                        \E i \in (Len(outbox) + 1)..Len(outbox') :
                            /\ outbox'[i].peer = handled'[k].peer
                            /\ outbox'[i].response.id = handled'[k].id]_vars

\* A capture is awaiting its signal and a ping dispatched after it has been
\* answered.
C14_Witness ==
    \E k \in Captures : \E j \in 1..Len(handled) :
        /\ k < j
        /\ handled[j].method = "ping"
        /\ ResponsesTo(handled[j].peer, handled[j].id) # {}
        /\ \E a \in 1..Len(awaiting) :
              awaiting[a].peer = handled[k].peer /\ awaiting[a].id = handled[k].id

\* What _handle_message adds to the outbox when it is given text for peer p
\* in the current state.
Answers(p, text) ==
    LET d == _handle_message(SCur, p, text)
    IN  SubSeq(d.outbox, Len(outbox) + 1, Len(d.outbox))

\* _handle_message given text for peer p calls no handler and starts no
\* coroutine.
InvokesNothing(p, text) ==
    LET d == _handle_message(SCur, p, text)
    IN  d.handled = handled /\ d.capturing = capturing /\ d.awaiting = awaiting

\* The one answer is an error response to peer p with the given id and code.
IsErrorTo(answers, p, id, code) ==
    /\ Len(answers) = 1
    /\ answers[1].peer = p
    /\ answers[1].response.id = id
    /\ "error" \in DOMAIN answers[1].response
    /\ "result" \notin DOMAIN answers[1].response
    /\ answers[1].response.error.code = code

C16_ParseErrorAnsweredOnce ==
    /\ \A p \in PeerIds :
          /\ IsErrorTo(Answers(p, NotJson), p, DefaultId, ParseError)
          /\ InvokesNothing(p, NotJson)
    /\ \A i \in 1..Len(outbox) :
          outbox[i].response.id = DefaultId <=>
              outbox[i].response.error.code = ParseError

\* Two texts that are not JSON have been answered.
C16_Witness ==
    /\ Len(outbox) >= 2
    /\ \A i \in 1..Len(outbox) :
          /\ outbox[i].response.id = DefaultId
          /\ outbox[i].response.error.code = ParseError
          /\ outbox[i].state = "OPEN"

\* The frame the controller receives for a response of the server.
ToFrame(response) ==
    [parses |-> TRUE, id |-> response.id,
     result |-> IF "result" \in DOMAIN response THEN response.result ELSE "",
     error  |-> IF "error" \in DOMAIN response THEN response.error ELSE NoError]

\* A controller whose only pending call has the id of the response rejects
\* that call when the response arrives.
ControllerRejects(response) ==
    LET call == [IdleCall EXCEPT !.kind = "request", !.method = "set_node_property",
                                 !.st = "pending", !.id = response.id,
                                 !.timer = "armed"]
        c    == [Cur EXCEPT !.pendingRequests = MapSet(@, response.id, 1),
                            !.calls[1] = call]
    IN  OnMessage(c, ToFrame(response)).calls[1].st = "rejected"

\* C17: every set_node_property call whose handler reported a failure has
\* been answered with an error response, which the controller turns into a
\* rejected call.
C17_HandlerFailureIsAnErrorResponse ==
    \A k \in 1..Len(handled) :
        "error" \in DOMAIN handle_set_property(handled[k].params) =>
            /\ ResponsesTo(handled[k].peer, handled[k].id) # {}
            /\ \A i \in ResponsesTo(handled[k].peer, handled[k].id) :
                  /\ "error" \in DOMAIN outbox[i].response
                  /\ ControllerRejects(outbox[i].response)

\* Every frame for which a handler was invoked has a response, or its peer
\* is open no more.
AllAnswered ==
    \A k \in 1..Len(handled) :
        \/ ResponsesTo(handled[k].peer, handled[k].id) # {}
        \/ ready_state[handled[k].peer] # "OPEN"

C19_NoSendAfterClose ==
    \A i \in 1..Len(outbox) : outbox[i].state = "OPEN"

\* The peers of a sequence that are not closed after the step, in order.
RECURSIVE NotClosedAfter(_, _)
NotClosedAfter(peers, state) ==
    IF peers = <<>> THEN <<>>
    ELSE IF state[Head(peers)] = "CLOSED"
         THEN NotClosedAfter(Tail(peers), state)
         ELSE <<Head(peers)>> \o NotClosedAfter(Tail(peers), state)

NewCallsFor(p) ==
    {k \in (Len(handled) + 1)..Len(handled') : handled'[k].peer = p}

NewSendsTo(p) ==
    {i \in (Len(outbox) + 1)..Len(outbox') : outbox'[i].peer = p}

\* C21: in a tick of the server, a peer whose state after its poll is not
\* OPEN (it is new, connecting, closing or closed) has no handler invoked
\* for it and nothing sent to it, and no packet of it is read: its packets
\* stay as they are, or are dropped with the peer when it is closed.
C21_FramesDispatchedOnlyWhileOpen ==
    [][Tick =>
          \A p \in PeerIds :
              ready_state'[p] # "OPEN" =>
                  /\ NewCallsFor(p) = {}
                  /\ NewSendsTo(p) = {}
                  /\ \/ packets'[p] = packets[p]
                     \/ ready_state'[p] = "CLOSED" /\ packets'[p] = <<>>]_vars

\* A peer of the array has been polled closing and holds a frame that was
\* received and not read.
C21_Witness ==
    \E i \in 1..Len(_peers) :
        /\ ready_state[_peers[i]] = "CLOSING"
        /\ packets[_peers[i]] # <<>>
        /\ _tcp_server = "listening"

\* The number of the frame that carried the request with this id.
FrameOf(id) == id[2]

\* C22: the handlers of the requests of one connection are invoked in the
\* order in which its frames were received, and nothing makes the responses
\* follow that order (the witness has them in the other order).
C22_FramesDispatchedInOrder ==
    \A j \in 1..Len(handled) : \A k \in 1..Len(handled) :
        (j < k /\ handled[j].peer = handled[k].peer) =>
            FrameOf(handled[j].id) < FrameOf(handled[k].id)

\* On one connection the response to a later request, an immediate one, was
\* sent before the response to an earlier, deferred one.
C22_Witness ==
    \E i \in 1..Len(outbox) : \E j \in 1..Len(outbox) :
        /\ i < j
        /\ outbox[i].peer = outbox[j].peer
        /\ FrameOf(outbox[i].response.id) > FrameOf(outbox[j].response.id)
        /\ \E k \in Captures : handled[k].id = outbox[j].response.id
        /\ "result" \in DOMAIN outbox[i].response


(* ---------------------------------------------------------------------- *)
(* Typed values on the engine side: convert_typed_value                    *)
(* ---------------------------------------------------------------------- *)
MaxDepth == 2

\* Variants, each with its type.  What JSON.parse gives: null, numbers (all
\* floats, counted here in halves so that 3 is 1.5), strings, arrays and
\* dictionaries; and the integers that int() makes.
Nil           == <<"Nil", 0>>
Float(h)      == <<"float", h>>
Integer(n)    == <<"int", n>>
Str(s)        == <<"String", s>>
Array(elems)  == <<"Array", elems>>
Dictionary(d) == <<"Dictionary", d>>

typeof(v) == v[1]

\* The script stops at a runtime error: the call has no value.
RuntimeError(what) == <<"error", what>>
IsError(v) == typeof(v) = "error"

IsNumber(v) == typeof(v) \in {"float", "int"}

\* A number as a float, in halves.
real(v) == IF typeof(v) = "int" THEN 2 * v[2] ELSE v[2]

\* int(v): a float is truncated towards zero; a string without digits is 0.
int(v) ==
    CASE typeof(v) = "float" ->
            Integer(IF v[2] >= 0 THEN v[2] \div 2 ELSE -((-v[2]) \div 2))
      [] typeof(v) = "int" -> v
      [] typeof(v) = "String" -> Integer(0)
      [] OTHER -> RuntimeError("int(): no conversion")

\* A constructor of floats: Vector2(x, y), Vector3(x, y, z), Color(r, g, b, a),
\* Rect2(x, y, w, h).  It takes numbers only.
Construct(type, args) ==
    IF \A i \in 1..Len(args) : IsNumber(args[i])
    THEN <<type, [i \in 1..Len(args) |-> real(args[i])]>>
    ELSE RuntimeError("no constructor of " \o type \o " for these arguments")

\* A constructor of integers: Vector2i(x, y), Vector3i(x, y, z), given what
\* int() returned.
ConstructI(type, args) ==
    IF \A i \in 1..Len(args) : typeof(args[i]) = "int"
    THEN <<type, [i \in 1..Len(args) |-> args[i][2]]>>
    ELSE RuntimeError("no constructor of " \o type \o " for these arguments")

Vector2(x, y)     == Construct("Vector2", <<x, y>>)
Vector2i(x, y)    == ConstructI("Vector2i", <<x, y>>)
Vector3(x, y, z)  == Construct("Vector3", <<x, y, z>>)
Vector3i(x, y, z) == ConstructI("Vector3i", <<x, y, z>>)
Color(r, g, b, a) == Construct("Color", <<r, g, b, a>>)
Rect2(x, y, w, h) == Construct("Rect2", <<x, y, w, h>>)

NodePath(path) ==
    IF typeof(path) = "String" THEN <<"NodePath", path[2]>>
    ELSE RuntimeError("no constructor of NodePath for this argument")

\* The resources of the project: ResourceLoader.exists(path) and load(path).
Resources == {"res://icon.svg"}
load(path) == <<"Resource", path>>

\* Class.new(): an object with the properties of its class as they are made.
New(class) == <<class, EmptyDict>>

\* shape.name = v, for a property of one of the given types.  A failed
\* conversion or a value of another type stops the script.
SetProperty(shape, name, v, types) ==
    CASE IsError(shape) -> shape
      [] IsError(v) -> v
      [] typeof(v) \in types -> <<shape[1], (name :> v) @@ shape[2]>>
      [] OTHER -> RuntimeError("Invalid assignment of property " \o name)

\* if value.has(name): shape.name = v
SetIfHas(shape, d, name, v, types) ==
    IF name \in DOMAIN d THEN SetProperty(shape, name, v, types) ELSE shape

\* pts.append(pt) for every converted point: a PackedVector2Array takes
\* Vector2 only.
PackedVector2Array(pts) ==
    IF \A i \in 1..Len(pts) : typeof(pts[i]) = "Vector2"
    THEN <<"PackedVector2Array", pts>>
    ELSE RuntimeError("PackedVector2Array.append: not a Vector2")

\* The first error among the values of a dictionary under construction, or
\* the dictionary.
DictionaryOf(result) ==
    IF \E key \in DOMAIN result : IsError(result[key])
    THEN result[CHOOSE key \in DOMAIN result : IsError(result[key])]
    ELSE Dictionary(result)

RECURSIVE convert_typed_value(_)
RECURSIVE _convert_typed_value(_)

\* A slip: a dictionary without _type that has numbers as x and y and no z
\* becomes a Vector2.
convert_plain_promotes(d) ==
    IF /\ {"x", "y"} \subseteq DOMAIN d
       /\ "z" \notin DOMAIN d
       /\ IsNumber(d["x"]) /\ IsNumber(d["y"])
    THEN Vector2(d["x"], d["y"])
    ELSE DictionaryOf([key \in DOMAIN d |-> convert_typed_value(d[key])])

\* if not value.has("_type"): the values of a plain dictionary are converted,
\* under their keys.
convert_plain(d) ==
    DictionaryOf([key \in DOMAIN d |-> convert_typed_value(d[key])])

\* match t: the arms for the types of the engine and for the shapes, and
\* the arm for everything else, which logs and returns the value.
convert_tagged(value) ==
    LET d == value[2]
        t == d["_type"]
    IN  CASE t = Str("Vector2") ->
                Vector2(Get(d, "x", Float(0)), Get(d, "y", Float(0)))
          [] t = Str("Vector2i") ->
                Vector2i(int(Get(d, "x", Integer(0))), int(Get(d, "y", Integer(0))))
          [] t = Str("Vector3") ->
                Vector3(Get(d, "x", Float(0)), Get(d, "y", Float(0)),
                        Get(d, "z", Float(0)))
          [] t = Str("Vector3i") ->
                Vector3i(int(Get(d, "x", Integer(0))), int(Get(d, "y", Integer(0))),
                         int(Get(d, "z", Integer(0))))
          [] t = Str("Color") ->
                Color(Get(d, "r", Float(0)), Get(d, "g", Float(0)),
                      Get(d, "b", Float(0)), Get(d, "a", Float(2)))
          [] t = Str("Rect2") ->
                Rect2(Get(d, "x", Float(0)), Get(d, "y", Float(0)),
                      Get(d, "w", Float(0)), Get(d, "h", Float(0)))
          [] t = Str("NodePath") ->
                NodePath(Get(d, "path", Str("")))
          [] t = Str("Resource") ->
                LET res_path == Get(d, "path", Str(""))
                IN  IF res_path # Str("") /\ res_path[2] \in Resources
                    THEN load(res_path[2])
                    ELSE Nil
          [] t = Str("RectangleShape2D") ->
                SetIfHas(New("RectangleShape2D"), d, "size",
                         convert_typed_value(Get(d, "size", Nil)), {"Vector2"})
          [] t = Str("CircleShape2D") ->
                SetIfHas(New("CircleShape2D"), d, "radius",
                         Get(d, "radius", Nil), {"float", "int"})
          [] t = Str("CapsuleShape2D") ->
                SetIfHas(SetIfHas(New("CapsuleShape2D"), d, "radius",
                                  Get(d, "radius", Nil), {"float", "int"}),
                         d, "height", Get(d, "height", Nil), {"float", "int"})
          [] t = Str("WorldBoundaryShape2D") ->
                SetIfHas(SetIfHas(New("WorldBoundaryShape2D"), d, "normal",
                                  convert_typed_value(Get(d, "normal", Nil)),
                                  {"Vector2"}),
                         d, "distance", Get(d, "distance", Nil), {"float", "int"})
          [] t = Str("SegmentShape2D") ->
                SetIfHas(SetIfHas(New("SegmentShape2D"), d, "a",
                                  convert_typed_value(Get(d, "a", Nil)), {"Vector2"}),
                         d, "b", convert_typed_value(Get(d, "b", Nil)), {"Vector2"})
          [] t = Str("ConvexPolygonShape2D") ->
                IF "points" \in DOMAIN d /\ typeof(d["points"]) = "Array"
                THEN SetProperty(New("ConvexPolygonShape2D"), "points",
                         PackedVector2Array(
                             [i \in 1..Len(d["points"][2]) |->
                                 convert_typed_value(d["points"][2][i])]),
                         {"PackedVector2Array"})
                ELSE New("ConvexPolygonShape2D")
          [] OTHER ->
                \* "Unknown _type in convert_typed_value: " + t
                IF typeof(t) = "String" THEN value
                ELSE RuntimeError("Invalid operands 'String' and '" \o typeof(t)
                                  \o "' in operator '+'")

\* A slip: the elements of an array are converted as the values of a plain
\* dictionary are.
convert_typed_value_in_arrays(value) ==
    CASE typeof(value) = "Array" ->
            Array([i \in 1..Len(value[2]) |-> convert_typed_value(value[2][i])])
      [] typeof(value) # "Dictionary" -> value
      [] "_type" \notin DOMAIN value[2] -> convert_plain(value[2])
      [] OTHER -> convert_tagged(value)

\* convert_typed_value(value) of the headless operations script
convert_typed_value(value) ==
    CASE typeof(value) # "Dictionary" -> value
      [] "_type" \notin DOMAIN value[2] -> convert_plain(value[2])
      [] OTHER -> convert_tagged(value)

\* _convert_typed_value(value) of the editor's handler: t is declared a
\* String, the shapes are not among its arms and nothing is logged.
_convert_typed_value(value) ==
    CASE typeof(value) # "Dictionary" -> value
      [] "_type" \notin DOMAIN value[2] ->
            DictionaryOf([key \in DOMAIN value[2] |->
                             _convert_typed_value(value[2][key])])
      [] typeof(value[2]["_type"]) # "String" ->
            RuntimeError("Trying to assign value of type '"
                         \o typeof(value[2]["_type"])
                         \o "' to a variable of type 'String'")
      [] OTHER ->
            LET d == value[2]
                t == d["_type"]
            IN  CASE t = Str("Vector2") ->
                        Vector2(Get(d, "x", Float(0)), Get(d, "y", Float(0)))
                  [] t = Str("Vector2i") ->
                        Vector2i(int(Get(d, "x", Integer(0))),
                                 int(Get(d, "y", Integer(0))))
                  [] t = Str("Vector3") ->
                        Vector3(Get(d, "x", Float(0)), Get(d, "y", Float(0)),
                                Get(d, "z", Float(0)))
                  [] t = Str("Vector3i") ->
                        Vector3i(int(Get(d, "x", Integer(0))),
                                 int(Get(d, "y", Integer(0))),
                                 int(Get(d, "z", Integer(0))))
                  [] t = Str("Color") ->
                        Color(Get(d, "r", Float(0)), Get(d, "g", Float(0)),
                              Get(d, "b", Float(0)), Get(d, "a", Float(2)))
                  [] t = Str("Rect2") ->
                        Rect2(Get(d, "x", Float(0)), Get(d, "y", Float(0)),
                              Get(d, "w", Float(0)), Get(d, "h", Float(0)))
                  [] t = Str("NodePath") ->
                        NodePath(Get(d, "path", Str("")))
                  [] t = Str("Resource") ->
                        LET res_path == Get(d, "path", Str(""))
                        IN  IF res_path # Str("") /\ res_path[2] \in Resources
                            THEN load(res_path[2])
                            ELSE Nil
                  [] OTHER -> value

(* Wire values                                                             *)
(* ---------------------------------------------------------------------- *)
\* The sub-fields of the types of the engine, and the value each has when a
\* wire value gives it.  The path of a NodePath or of a Resource is a string.
TypeFields ==
    [Vector2 |-> {"x", "y"}, Vector2i |-> {"x", "y"},
     Vector3 |-> {"x", "y", "z"}, Vector3i |-> {"x", "y", "z"},
     Color |-> {"r", "g", "b", "a"}, Rect2 |-> {"x", "y", "w", "h"},
     NodePath |-> {"path"}]

FieldValue ==
    [x |-> Float(3), y |-> Float(-5), z |-> Float(8), w |-> Float(4),
     h |-> Float(6), r |-> Float(1), g |-> Float(2), b |-> Float(1),
     a |-> Float(1), path |-> Str("Player/Sprite")]

\* {"_type": t, ...} with the given sub-fields.
Typed(t, fields) ==
    Dictionary([k \in fields \cup {"_type"} |->
                   IF k = "_type" THEN Str(t) ELSE FieldValue[k]])

\* {x: 1, y: 2}: it looks like a vector and carries no _type.
Lookalike == Dictionary([x |-> Float(2), y |-> Float(4)])

\* The values that are nested below: those without _type; every type of
\* the engine with every subset of its sub-fields; resources that exist and
\* do not; the shapes; and dictionaries whose _type no arm knows: the name
\* of another type, the empty string, a number, null, a dictionary.
Leaves ==
    LET EngineValues ==
            UNION {{Typed(t, fields) : fields \in SUBSET TypeFields[t]} :
                      t \in DOMAIN TypeFields}
        ResourceValues ==
            { Dictionary([_type |-> Str("Resource")]),
              Dictionary([_type |-> Str("Resource"),
                          path |-> Str("res://icon.svg")]),
              Dictionary([_type |-> Str("Resource"),
                          path |-> Str("res://gone.svg")]) }
        ShapeValues ==
            { Dictionary([_type |-> Str("RectangleShape2D")]),
              Dictionary([_type |-> Str("RectangleShape2D"),
                          size |-> Typed("Vector2", {"x", "y"})]),
              Dictionary([_type |-> Str("RectangleShape2D"), size |-> Lookalike]),
              Dictionary([_type |-> Str("CircleShape2D"), radius |-> Float(20)]),
              Dictionary([_type |-> Str("CapsuleShape2D"), radius |-> Float(20),
                          height |-> Float(60)]),
              Dictionary([_type |-> Str("WorldBoundaryShape2D"),
                          normal |-> Typed("Vector2", {"y"}),
                          distance |-> Float(0)]),
              Dictionary([_type |-> Str("SegmentShape2D"),
                          a |-> Typed("Vector2", {}),
                          b |-> Typed("Vector2", {"x"})]),
              Dictionary([_type |-> Str("ConvexPolygonShape2D"),
                          points |-> Array(<<Typed("Vector2", {}),
                                             Typed("Vector2", {"x"}),
                                             Typed("Vector2", {"x", "y"})>>)]) }
        OtherDiscriminators ==
            { Str("Quaternion"), Str(""), Float(10), Nil, Dictionary(EmptyDict) }
        OtherValues ==
            {Dictionary([_type |-> t, x |-> Float(3),
                         inner |-> Typed("Vector2", {"x", "y"})]) :
                t \in OtherDiscriminators}
        PlainValues ==
            { Nil, Float(3), Str("a"), Array(<<>>), Dictionary(EmptyDict),
              Lookalike }
    IN  PlainValues \cup EngineValues \cup ResourceValues \cup ShapeValues
            \cup OtherValues

\* A value as the value of a key of a plain dictionary, and as an element
\* of an array.
InDictionary(v) == Dictionary([a |-> v, n |-> Float(2)])
InArray(v)      == Array(<<v, Str("a")>>)

\* The leaves, under at most k dictionaries and arrays.
RECURSIVE Nested(_)
Nested(k) ==
    IF k = 0 THEN Leaves
    ELSE Leaves \cup {InDictionary(v) : v \in Nested(k - 1)}
                \cup {InArray(v) : v \in Nested(k - 1)}

WireValues == Nested(MaxDepth)

(* The decoders, each applied to a wire value                              *)
(* ---------------------------------------------------------------------- *)
InitCodec ==
    /\ InitBridge
    /\ given \in WireValues
    /\ returned = NotCalled

\* The headless script converts the value of a property.
CallConvertTypedValue ==
    /\ returned = NotCalled
    /\ returned' = <<"convert_typed_value", convert_typed_value(given)>>
    /\ UNCHANGED <<given, cvars, svars, pvars>>

\* The editor's handler converts the value of a property.
CallEditorConvertTypedValue ==
    /\ returned = NotCalled
    /\ returned' = <<"_convert_typed_value", _convert_typed_value(given)>>
    /\ UNCHANGED <<given, cvars, svars, pvars>>

CodecNext ==
    \/ CallConvertTypedValue
    \/ CallEditorConvertTypedValue

SpecCodec == InitCodec /\ [][CodecNext]_vars


(* ---------------------------------------------------------------------- *)
(* Properties of the decoders                                              *)
(* ---------------------------------------------------------------------- *)
\* Some dictionary of the value, at any depth, carries _type.
RECURSIVE CarriesType(_)
CarriesType(v) ==
    CASE typeof(v) = "Dictionary" ->
            \/ "_type" \in DOMAIN v[2]
            \/ \E k \in DOMAIN v[2] : CarriesType(v[2][k])
      [] typeof(v) = "Array" ->
            \E i \in 1..Len(v[2]) : CarriesType(v[2][i])
      [] OTHER -> FALSE

\* C23: a wire value in which no dictionary carries _type decodes, by either
\* decoder, to a value equal to it: a dictionary with x and y is never made
\* a vector.
C23_UntypedValuesDecodeToThemselves ==
    (returned # NotCalled /\ ~CarriesType(given)) => returned[2] = given

\* {a: {x: 1, y: 2}, ...} has been decoded, to itself.
C23_Witness ==
    /\ given = InDictionary(Lookalike)
    /\ returned = <<"convert_typed_value", InDictionary(Lookalike)>>

\* The type names that the match of each decoder has an arm for.
Recognized(fn) ==
    IF fn = "convert_typed_value"
    THEN {"Vector2", "Vector2i", "Vector3", "Vector3i", "Color", "Rect2",
          "NodePath", "Resource", "RectangleShape2D", "CircleShape2D",
          "CapsuleShape2D", "WorldBoundaryShape2D", "SegmentShape2D",
          "ConvexPolygonShape2D"}
    ELSE {"Vector2", "Vector2i", "Vector3", "Vector3i", "Color", "Rect2",
          "NodePath", "Resource"}

\* C24: a dictionary whose _type is not a type name that the decoder
\* recognizes, whatever value it is, decodes to that dictionary unchanged,
\* without an error.
C24_UnknownTypeReturnedUnchanged ==
    (/\ returned # NotCalled
     /\ typeof(given) = "Dictionary"
     /\ "_type" \in DOMAIN given[2]
     /\ given[2]["_type"] \notin {Str(t) : t \in Recognized(returned[1])})
        => returned[2] = given

\* The sub-fields of a type in the order of the arguments of its constructor.
Arguments ==
    [Vector2 |-> <<"x", "y">>, Vector2i |-> <<"x", "y">>,
     Vector3 |-> <<"x", "y", "z">>, Vector3i |-> <<"x", "y", "z">>,
     Rect2 |-> <<"x", "y", "w", "h">>, Color |-> <<"r", "g", "b", "a">>]

\* C25: a typed value decodes, by either decoder, to a value of its type in
\* which every omitted sub-field has its default: 0 for x, y, z, w, h of the
\* vectors and of Rect2 and for r, g, b of a Color, 1.0 (two halves) for a
\* of a Color, the empty path for the path of a NodePath.
C25_OmittedSubFieldsGetDefaults ==
    (/\ returned # NotCalled
     /\ typeof(given) = "Dictionary"
     /\ "_type" \in DOMAIN given[2])
        => LET d == given[2]
               out == returned[2]
           IN  /\ \A t \in DOMAIN Arguments :
                      d["_type"] = Str(t) =>
                          /\ typeof(out) = t
                          /\ \A i \in 1..Len(Arguments[t]) :
                                Arguments[t][i] \notin DOMAIN d =>
                                    out[2][i] = IF Arguments[t][i] = "a" THEN 2 ELSE 0
               /\ (d["_type"] = Str("NodePath") /\ "path" \notin DOMAIN d) =>
                      out = <<"NodePath", "">>

\* A Color given with r only has been decoded: g and b are 0, a is 1.0.
C25_Witness ==
    /\ given = Typed("Color", {"r"})
    /\ returned = <<"convert_typed_value", <<"Color", <<1, 0, 0, 2>>>>>>

\* The Vector2 that a dictionary tagged Vector2 stands for.
Vector2Of(v) ==
    <<"Vector2", <<real(IF "x" \in DOMAIN v[2] THEN v[2]["x"] ELSE Float(0)),
                   real(IF "y" \in DOMAIN v[2] THEN v[2]["y"] ELSE Float(0))>>>>

IsTaggedVector2(v) ==
    /\ typeof(v) = "Dictionary"
    /\ "_type" \in DOMAIN v[2]
    /\ v[2]["_type"] = Str("Vector2")

\* The sub-fields of the shapes that are vectors.
ShapeVectors ==
    [RectangleShape2D |-> {"size"}, WorldBoundaryShape2D |-> {"normal"},
     SegmentShape2D |-> {"a", "b"}]

\* out is in with its typed values reconstructed: in itself if in is no
\* dictionary; a dictionary of the same keys, each value reconstructed, if in
\* is a dictionary without _type; the vector if in is tagged Vector2; and a
\* shape whose vectors are the vectors that its tagged sub-fields stand for.
RECURSIVE Reconstructs(_, _)
Reconstructs(in, out) ==
    CASE typeof(in) # "Dictionary" -> out = in
      [] "_type" \notin DOMAIN in[2] ->
            /\ typeof(out) = "Dictionary"
            /\ DOMAIN out[2] = DOMAIN in[2]
            /\ \A k \in DOMAIN in[2] : Reconstructs(in[2][k], out[2][k])
      [] IsTaggedVector2(in) -> out = Vector2Of(in)
      [] \E t \in DOMAIN ShapeVectors : in[2]["_type"] = Str(t) ->
            LET t == CHOOSE s \in DOMAIN ShapeVectors : in[2]["_type"] = Str(s)
            IN  /\ typeof(out) = t
                /\ \A k \in ShapeVectors[t] \cap DOMAIN in[2] :
                      out[2][k] = Vector2Of(in[2][k])
      [] OTHER -> TRUE

\* The wire value is one the encoder can have made: under plain dictionaries
\* every _type is a string, and the sub-fields of a shape that are vectors
\* are tagged Vector2.
RECURSIVE WellFormed(_)
WellFormed(v) ==
    CASE typeof(v) # "Dictionary" -> TRUE
      [] "_type" \notin DOMAIN v[2] -> \A k \in DOMAIN v[2] : WellFormed(v[2][k])
      [] typeof(v[2]["_type"]) # "String" -> FALSE
      [] \E t \in DOMAIN ShapeVectors : v[2]["_type"] = Str(t) ->
            LET t == CHOOSE s \in DOMAIN ShapeVectors : v[2]["_type"] = Str(s)
            IN  \A k \in ShapeVectors[t] \cap DOMAIN v[2] : IsTaggedVector2(v[2][k])
      [] OTHER -> TRUE

Undefined       == <<"undefined", 0>>
JsNull          == <<"null", 0>>
JsArray(elems)  == <<"array", elems>>
Object(entries) == <<"object", entries>>

\* The keys that are named below.
Key ==
    [x |-> <<"x">>, y |-> <<"y">>, z |-> <<"z">>, w |-> <<"w">>,
     _type |-> <<"_", "t", "y", "p", "e">>,
     operations |-> <<"o", "p", "e", "r", "a", "t", "i", "o", "n", "s">>,
     operation |-> <<"o", "p", "e", "r", "a", "t", "i", "o", "n">>,
     params |-> <<"p", "a", "r", "a", "m", "s">>,
     properties |-> <<"p", "r", "o", "p", "e", "r", "t", "i", "e", "s">>,
     scenePath |-> <<"s", "c", "e", "n", "e", "P", "a", "t", "h">>,
     scene_path |-> <<"s", "c", "e", "n", "e", "_", "p", "a", "t", "h">>,
     projectPath |-> <<"p", "r", "o", "j", "e", "c", "t", "P", "a", "t",
            "h">>,
     project_path |-> <<"p", "r", "o", "j", "e", "c", "t", "_", "p", "a",
            "t", "h">>,
     nodePath |-> <<"n", "o", "d", "e", "P", "a", "t", "h">>,
     node_path |-> <<"n", "o", "d", "e", "_", "p", "a", "t", "h">>,
     zIndex |-> <<"z", "I", "n", "d", "e", "x">>,
     ZIndex |-> <<"Z", "I", "n", "d", "e", "x">>,
     z_index |-> <<"z", "_", "i", "n", "d", "e", "x">>,
     nodeID |-> <<"n", "o", "d", "e", "I", "D">>,
     HTTPServer |-> <<"H", "T", "T", "P", "S", "e", "r", "v", "e", "r">>,
     id |-> <<"i", "d">>,
     constructor |-> <<"c", "o", "n", "s", "t", "r", "u", "c", "t", "o",
            "r">>,
     toString |-> <<"t", "o", "S", "t", "r", "i", "n", "g">>,
     texturePath |-> <<"t", "e", "x", "t", "u", "r", "e", "P", "a", "t",
            "h">>,
     outputPath |-> <<"o", "u", "t", "p", "u", "t", "P", "a", "t", "h">>,
     testDir |-> <<"t", "e", "s", "t", "D", "i", "r">>,
     texture_path |-> <<"t", "e", "x", "t", "u", "r", "e", "_", "p", "a",
            "t", "h">>,
     property |-> <<"p", "r", "o", "p", "e", "r", "t", "y">>,
     value |-> <<"v", "a", "l", "u", "e">>,
     path |-> <<"p", "a", "t", "h">>,
     size |-> <<"s", "i", "z", "e">>,
     radius |-> <<"r", "a", "d", "i", "u", "s">>,
     height |-> <<"h", "e", "i", "g", "h", "t">>,
     normal |-> <<"n", "o", "r", "m", "a", "l">>,
     distance |-> <<"d", "i", "s", "t", "a", "n", "c", "e">>,
     points |-> <<"p", "o", "i", "n", "t", "s">>,
     h |-> <<"h">>,
     r |-> <<"r">>,
     g |-> <<"g">>,
     b |-> <<"b">>,
     a |-> <<"a">>,
     scene |-> <<"s", "c", "e", "n", "e">>,
     __defineGetter__ |-> <<"_", "_", "d", "e", "f", "i", "n", "e", "G", "e",
            "t", "t", "e", "r", "_", "_">>]

\* typeof value
js_typeof(v) == IF v[1] \in {"null", "array", "object"} THEN "object" ELSE v[1]

\* Array.isArray(value)
isArray(v) == v[1] = "array"

\* key in value, for an object without properties of a prototype
In(key, v) == \E i \in 1..Len(v[2]) : v[2][i][1] = key

\* value.key
Prop(v, key) ==
    IF v[1] = "object" /\ In(key, v)
    THEN v[2][CHOOSE i \in 1..Len(v[2]) : v[2][i][1] = key][2]
    ELSE Undefined

\* A slip: an object that has a z passes too.
looksLikeVector2IgnoresZ(value) ==
    /\ js_typeof(value) = "object"
    /\ value # JsNull
    /\ ~isArray(value)
    /\ js_typeof(Prop(value, Key.x)) = "number"
    /\ js_typeof(Prop(value, Key.y)) = "number"
    /\ ~In(Key._type, value)

looksLikeVector2(value) ==
    /\ js_typeof(value) = "object"
    /\ value # JsNull
    /\ ~isArray(value)
    /\ js_typeof(Prop(value, Key.x)) = "number"
    /\ js_typeof(Prop(value, Key.y)) = "number"
    /\ ~In(Key.z, value)
    /\ ~In(Key._type, value)

autoDetectVector2(value) ==
    IF looksLikeVector2(value)
    THEN Object(<< <<Key._type, String("Vector2")>>,
                   <<Key.x, Prop(value, Key.x)>>,
                   <<Key.y, Prop(value, Key.y)>> >>)
    ELSE value

\* What a caller may hand over: objects with any of x, y, z and _type, each
\* a number, a string or undefined, with or without a further key, and some
\* values that are no objects.
Absent == <<"absent", 0>>

DetectKeys == <<Key.x, Key.y, Key.z, Key._type, Key.w>>

DetectValues(key) ==
    IF key = Key.w THEN {Absent, Number(5)}
    ELSE {Absent, Undefined, Number(3), Number(4), String("3")}

ObjectOver(f) ==
    Object(SelectSeq([i \in 1..Len(DetectKeys) |-> <<DetectKeys[i], f[i]>>],
                     LAMBDA e : e[2] # Absent))

DetectInputs ==
    {ObjectOver(f) :
        f \in {g \in [1..Len(DetectKeys) ->
                          {Absent, Undefined, Number(3), Number(4), Number(5),
                           String("3")}] :
                  \A i \in 1..Len(DetectKeys) : g[i] \in DetectValues(DetectKeys[i])}}
    \cup {Undefined, JsNull, Number(3), String("3"),
          JsArray(<<Number(1), Number(2)>>)}

InitDetect ==
    /\ InitBridge
    /\ given \in DetectInputs
    /\ returned = NotCalled

\* A tool of the level layer passes a position through autoDetectVector2.
CallAutoDetectVector2 ==
    /\ returned = NotCalled
    /\ returned' = <<"autoDetectVector2", autoDetectVector2(given)>>
    /\ UNCHANGED <<given, cvars, svars, pvars>>

SpecDetect == InitDetect /\ [][CallAutoDetectVector2]_vars

\* The object has the key as an own property, and its value is a number.
HasNumber(v, key) ==
    \E i \in 1..Len(v[2]) : v[2][i][1] = key /\ v[2][i][2][1] = "number"

HasKey(v, key) == \E i \in 1..Len(v[2]) : v[2][i][1] = key

\* The value of the own property of the object under the key.
ValueAt(v, key) == v[2][CHOOSE i \in 1..Len(v[2]) : v[2][i][1] = key][2]

\* C27: autoDetectVector2 returns the object {_type: 'Vector2', x, y} with
\* the x and the y of its input if the input is an object, no array, with
\* numbers as x and y, without a key z and without a key _type; and it
\* returns every other input as it is.
C27_AutoDetectPromotesExactlyPlainXY ==
    returned[1] = "autoDetectVector2" =>
        IF /\ given[1] = "object"
           /\ HasNumber(given, Key.x) /\ HasNumber(given, Key.y)
           /\ ~HasKey(given, Key.z) /\ ~HasKey(given, Key._type)
        THEN returned[2] = Object(<< <<Key._type, String("Vector2")>>,
                                     <<Key.x, ValueAt(given, Key.x)>>,
                                     <<Key.y, ValueAt(given, Key.y)>> >>)
        ELSE returned[2] = given

\* {x: 3, y: 4} has been promoted.
C27_Witness ==
    /\ given = Object(<< <<Key.x, Number(3)>>, <<Key.y, Number(4)>> >>)
    /\ returned = <<"autoDetectVector2",
                    Object(<< <<Key._type, String("Vector2")>>,
                              <<Key.x, Number(3)>>, <<Key.y, Number(4)>> >>)>>


(* ---------------------------------------------------------------------- *)
(* Parameter names: normalizeParameters and convertCamelToSnakeCase        *)
(* ---------------------------------------------------------------------- *)
UpperCase ==
    <<"A", "B", "C", "D", "E", "F", "G", "H", "I", "J", "K", "L", "M",
      "N", "O", "P", "Q", "R", "S", "T", "U", "V", "W", "X", "Y", "Z">>
LowerCase ==
    <<"a", "b", "c", "d", "e", "f", "g", "h", "i", "j", "k", "l", "m",
      "n", "o", "p", "q", "r", "s", "t", "u", "v", "w", "x", "y", "z">>

\* /[A-Z]/ matches the character.
IsUpper(c) == \E i \in 1..Len(UpperCase) : UpperCase[i] = c

\* letter.toLowerCase()
toLowerCase(c) ==
    IF IsUpper(c)
    THEN LowerCase[CHOOSE i \in 1..Len(UpperCase) : UpperCase[i] = c]
    ELSE c

\* key.includes(c)
includes(key, c) == \E i \in 1..Len(key) : key[i] = c

\* A slip: the letter is kept as it is, `_${letter}`.
RECURSIVE replaceKeepsCase(_)
replaceKeepsCase(key) ==
    IF key = <<>> THEN <<>>
    ELSE (IF IsUpper(Head(key)) THEN <<"_", Head(key)>>
          ELSE <<Head(key)>>) \o replaceKeepsCase(Tail(key))

\* key.replace(/[A-Z]/g, letter => `_${letter.toLowerCase()}`)
RECURSIVE replace(_)
replace(key) ==
    IF key = <<>> THEN <<>>
    ELSE (IF IsUpper(Head(key)) THEN <<"_", toLowerCase(Head(key))>>
          ELSE <<Head(key)>>) \o replace(Tail(key))

\* result[key] = value: a property that exists keeps its place.
Put(o, key, value) ==
    IF In(key, o)
    THEN Object([i \in 1..Len(o[2]) |->
                    IF o[2][i][1] = key THEN <<key, value>> ELSE o[2][i]])
    ELSE Object(Append(o[2], <<key, value>>))

\* The table of the names, from the word-separated one to the
\* capitalized compound.
parameterMappings == Object(<<
    <<<<"p", "r", "o", "j", "e", "c", "t", "_", "p", "a", "t", "h">>,
        String(<<"p", "r", "o", "j", "e", "c", "t", "P", "a", "t", "h">>)>>,
    <<<<"s", "c", "e", "n", "e", "_", "p", "a", "t", "h">>,
        String(<<"s", "c", "e", "n", "e", "P", "a", "t", "h">>)>>,
    <<<<"r", "o", "o", "t", "_", "n", "o", "d", "e", "_", "t", "y", "p",
        "e">>,
        String(<<"r", "o", "o", "t", "N", "o", "d", "e", "T", "y", "p",
                 "e">>)>>,
    <<<<"p", "a", "r", "e", "n", "t", "_", "n", "o", "d", "e", "_", "p", "a",
        "t", "h">>,
        String(<<"p", "a", "r", "e", "n", "t", "N", "o", "d", "e", "P", "a",
                 "t", "h">>)>>,
    <<<<"n", "o", "d", "e", "_", "t", "y", "p", "e">>,
        String(<<"n", "o", "d", "e", "T", "y", "p", "e">>)>>,
    <<<<"n", "o", "d", "e", "_", "n", "a", "m", "e">>,
        String(<<"n", "o", "d", "e", "N", "a", "m", "e">>)>>,
    <<<<"t", "e", "x", "t", "u", "r", "e", "_", "p", "a", "t", "h">>,
        String(<<"t", "e", "x", "t", "u", "r", "e", "P", "a", "t", "h">>)>>,
    <<<<"n", "o", "d", "e", "_", "p", "a", "t", "h">>,
        String(<<"n", "o", "d", "e", "P", "a", "t", "h">>)>>,
    <<<<"o", "u", "t", "p", "u", "t", "_", "p", "a", "t", "h">>,
        String(<<"o", "u", "t", "p", "u", "t", "P", "a", "t", "h">>)>>,
    <<<<"m", "e", "s", "h", "_", "i", "t", "e", "m", "_", "n", "a", "m", "e",
        "s">>,
        String(<<"m", "e", "s", "h", "I", "t", "e", "m", "N", "a", "m", "e",
                 "s">>)>>,
    <<<<"n", "e", "w", "_", "p", "a", "t", "h">>,
        String(<<"n", "e", "w", "P", "a", "t", "h">>)>>,
    <<<<"f", "i", "l", "e", "_", "p", "a", "t", "h">>,
        String(<<"f", "i", "l", "e", "P", "a", "t", "h">>)>>,
    <<<<"d", "i", "r", "e", "c", "t", "o", "r", "y">>,
        String(<<"d", "i", "r", "e", "c", "t", "o", "r", "y">>)>>,
    <<<<"r", "e", "c", "u", "r", "s", "i", "v", "e">>,
        String(<<"r", "e", "c", "u", "r", "s", "i", "v", "e">>)>>,
    <<<<"s", "c", "e", "n", "e">>,
        String(<<"s", "c", "e", "n", "e">>)>>,
    <<<<"e", "v", "e", "n", "t", "_", "t", "y", "p", "e">>,
        String(<<"e", "v", "e", "n", "t", "T", "y", "p", "e">>)>>,
    <<<<"k", "e", "y", "_", "c", "o", "d", "e">>,
        String(<<"k", "e", "y", "C", "o", "d", "e">>)>>,
    <<<<"r", "o", "o", "t", "_", "p", "a", "t", "h">>,
        String(<<"r", "o", "o", "t", "P", "a", "t", "h">>)>>,
    <<<<"i", "n", "c", "l", "u", "d", "e", "_", "p", "r", "o", "p", "e", "r",
        "t", "i", "e", "s">>,
        String(<<"i", "n", "c", "l", "u", "d", "e", "P", "r", "o", "p", "e",
                 "r", "t", "i", "e", "s">>)>>,
    <<<<"t", "e", "s", "t", "_", "s", "c", "r", "i", "p", "t">>,
        String(<<"t", "e", "s", "t", "S", "c", "r", "i", "p", "t">>)>>,
    <<<<"t", "e", "s", "t", "_", "n", "a", "m", "e">>,
        String(<<"t", "e", "s", "t", "N", "a", "m", "e">>)>>,
    <<<<"t", "e", "s", "t", "_", "d", "i", "r">>,
        String(<<"t", "e", "s", "t", "D", "i", "r">>)>>,
    <<<<"i", "n", "c", "l", "u", "d", "e", "_", "s", "u", "b", "d", "i", "r",
        "s">>,
        String(<<"i", "n", "c", "l", "u", "d", "e", "S", "u", "b", "d", "i",
                 "r", "s">>)>>,
    <<<<"x", "m", "l", "_", "o", "u", "t", "p", "u", "t">>,
        String(<<"x", "m", "l", "O", "u", "t", "p", "u", "t">>)>> >>)

\* for (const [snakeCase, camelCase] of Object.entries(parameterMappings))
\*     reverseParameterMappings[camelCase] = snakeCase
RECURSIVE ReverseEntries(_, _)
ReverseEntries(result, entries) ==
    IF entries = <<>> THEN result
    ELSE ReverseEntries(Put(result, Head(entries)[2][2], String(Head(entries)[1])),
                        Tail(entries))

reverseParameterMappings == ReverseEntries(Object(<<>>), parameterMappings[2])

\* A function of the runtime, by its name.
Function(name) == <<"function", name>>

\* What every object literal inherits from Object.prototype, as far as the
\* keys drawn below go.
ObjectPrototype ==
    Object(<< <<Key.constructor, Function(<<"O", "b", "j", "e", "c", "t">>)>>,
              <<Key.toString, Function(Key.toString)>>,
              <<Key.__defineGetter__, Function(Key.__defineGetter__)>> >>)

\* table[key]: the own property, else the inherited one, else undefined.
Lookup(table, key) ==
    CASE In(key, table) -> Prop(table, key)
      [] In(key, ObjectPrototype) -> Prop(ObjectPrototype, key)
      [] OTHER -> Undefined

\* The value counts as true in a condition.  A string that is tested is the
\* sequence of its pieces, the empty string the empty sequence.
Truthy(v) ==
    CASE v[1] \in {"undefined", "null"} -> FALSE
      [] v[1] = "number" -> v[2] # 0
      [] v[1] = "string" -> v[2] # <<>>
      [] OTHER -> TRUE

\* result[v] = ...: a value that is no string becomes one, a function the
\* text of its source.
ToPropertyKey(v) ==
    IF v[1] = "function"
    THEN <<"function ">> \o v[2] \o <<"() { [native code] }">>
    ELSE v[2]

\* for (const key in params) with hasOwnProperty: the own properties of an
\* object in their order, the elements of an array under their indices.
Digits == <<"0", "1", "2", "3", "4", "5", "6", "7", "8", "9">>

OwnEntries(v) ==
    CASE v[1] = "object" -> v[2]
      [] v[1] = "array" -> [i \in 1..Len(v[2]) |-> <<<<Digits[i]>>, v[2][i]>>]
      [] OTHER -> <<>>

\* typeof v === 'object' && v !== null && !Array.isArray(v)
IsNested(v) == js_typeof(v) = "object" /\ v # JsNull /\ ~isArray(v)

\* A slip: no key is rewritten.
normalizedKeyKeeps(key) == key

\* let normalizedKey = key; if (key.includes('_') && parameterMappings[key])
\*     normalizedKey = parameterMappings[key]
normalizedKey(key) ==
    IF includes(key, "_") /\ Truthy(Lookup(parameterMappings, key))
    THEN ToPropertyKey(Lookup(parameterMappings, key))
    ELSE key

\* reverseParameterMappings[key] || key.replace(...)
snakeKey(key) ==
    IF Truthy(Lookup(reverseParameterMappings, key))
    THEN ToPropertyKey(Lookup(reverseParameterMappings, key))
    ELSE replace(key)

RECURSIVE normalizeParameters(_)
RECURSIVE NormalizeEntries(_, _)
NormalizeEntries(result, entries) ==
    IF entries = <<>> THEN result
    ELSE LET key == Head(entries)[1]
             v == Head(entries)[2]
         IN  NormalizeEntries(
                 Put(result, normalizedKey(key),
                     IF IsNested(v) THEN normalizeParameters(v) ELSE v),
                 Tail(entries))

normalizeParameters(params) ==
    IF ~Truthy(params) \/ js_typeof(params) # "object" THEN params
    ELSE NormalizeEntries(Object(<<>>), OwnEntries(params))

RECURSIVE convertCamelToSnakeCase(_)
RECURSIVE ConvertEntries(_, _)
ConvertEntries(result, entries) ==
    IF entries = <<>> THEN result
    ELSE LET key == Head(entries)[1]
             v == Head(entries)[2]
         IN  ConvertEntries(
                 Put(result, snakeKey(key),
                     IF IsNested(v) THEN convertCamelToSnakeCase(v) ELSE v),
                 Tail(entries))

convertCamelToSnakeCase(params) ==
    ConvertEntries(Object(<<>>), OwnEntries(params))

(* The batch tool, from its arguments to the script                        *)
(* ---------------------------------------------------------------------- *)
\* createErrorResponse(message)
createErrorResponse(message) == <<"isError", message>>

\* The project and the scene that exist on the disk.
ProjectPath == String(<<"/project">>)
ScenePath   == String(<<"main.tscn">>)

\* validatePath(path): a path is the sequence of its pieces, of which ".."
\* is one wherever the path has two dots in a row.
validatePath(path) ==
    IF ~Truthy(path) \/ path[1] # "string" THEN FALSE
    ELSE ~includes(path[2], "..")

validateProjectAndScene(args) ==
    CASE ~Truthy(Prop(args, Key.projectPath)) \/ ~Truthy(Prop(args, Key.scenePath)) ->
            String("projectPath and scenePath are required")
      [] ~validatePath(Prop(args, Key.projectPath))
            \/ ~validatePath(Prop(args, Key.scenePath)) ->
            String("Invalid path")
      [] Prop(args, Key.projectPath) # ProjectPath ->
            String("Not a valid Godot project")
      [] Prop(args, Key.scenePath) # ScenePath ->
            String("Scene file does not exist")
      [] OTHER -> JsNull

\* JSON.stringify in the tool layer and JSON.parse in the script: an object
\* becomes a Dictionary without its undefined properties, a number a float.
RECURSIVE ToVariant(_)
ToVariant(v) ==
    CASE v[1] = "object" ->
            LET kept == SelectSeq(v[2], LAMBDA e : e[2] # Undefined)
            IN  Dictionary([key \in {kept[i][1] : i \in 1..Len(kept)} |->
                               ToVariant(Prop(v, key))])
      [] v[1] = "array" ->
            Array([i \in 1..Len(v[2]) |->
                      IF v[2][i] = Undefined THEN Nil ELSE ToVariant(v[2][i])])
      [] v[1] = "number" -> Float(2 * v[2])
      [] v[1] = "string" -> Str(v[2])
      [] OTHER -> Nil

\* executeOperation(operation, params, projectPath): the script is run with
\* JSON.stringify(convertCamelToSnakeCase(params)).
executeOperation(params) == ToVariant(convertCamelToSnakeCase(params))

\* runHeadlessOp(args, operation, buildParams, successMsg), as far as the
\* params of the script.
runHeadlessOp(args, params) ==
    IF validateProjectAndScene(args) # JsNull
    THEN createErrorResponse(validateProjectAndScene(args)[2])
    ELSE executeOperation(params)

\* The handler of the tool batch_scene_operations.
batch_scene_operations(rawArgs) ==
    LET args == normalizeParameters(rawArgs)
    IN  IF ~Truthy(Prop(args, Key.operations)) \/ ~isArray(Prop(args, Key.operations))
        THEN createErrorResponse("operations array is required")
        ELSE runHeadlessOp(args,
                 Object(<< <<Key.scenePath, Prop(args, Key.scenePath)>>,
                           <<Key.operations, Prop(args, Key.operations)>> >>))

\* The handler of the tool modify_node.
modify_node(rawArgs) ==
    LET args == normalizeParameters(rawArgs)
    IN  runHeadlessOp(args,
            Object(<< <<Key.scenePath, Prop(args, Key.scenePath)>>,
                      <<Key.nodePath, Prop(args, Key.nodePath)>>,
                      <<Key.properties, Prop(args, Key.properties)>> >>))

\* The handler of the tool set_node_property, as far as the params of the
\* request it sends over the bridge, as the bridge server parses them.
set_node_property(rawArgs) ==
    LET args == normalizeParameters(rawArgs)
    IN  IF ~Truthy(Prop(args, Key.nodePath)) \/ ~Truthy(Prop(args, Key.property))
        THEN createErrorResponse("nodePath and property are required")
        ELSE ToVariant(Object(<< <<Key.node_path, Prop(args, Key.nodePath)>>,
                                 <<Key.property, Prop(args, Key.property)>>,
                                 <<Key.value, Prop(args, Key.value)>> >>))

\* _batch_modify_node(scene_root, params): the path of the node it looks for.
_batch_modify_node(params) == Get(params[2], Key.node_path, Str("root"))

(* Arguments                                                               *)
(* ---------------------------------------------------------------------- *)
\* The keys of the table, and keys that are in neither table.
TableKeys ==
    {parameterMappings[2][i][1] : i \in 1..Len(parameterMappings[2])}
    \cup {parameterMappings[2][i][2][2] : i \in 1..Len(parameterMappings[2])}

OtherKeys ==
    {Key.zIndex, Key.ZIndex, Key.z_index, Key.nodeID, Key.HTTPServer, Key.id,
     Key.constructor, Key.toString, Key.__defineGetter__}

\* {key: 1}
Flat(key) == Object(<< <<key, Number(1)>> >>)

\* A value as the params of an object, and as an element of its operations.
Under(v)  == Object(<< <<Key.params, v>> >>)
InList(v) == Object(<< <<Key.operations, JsArray(<<v, Number(2)>>)>> >>)

RECURSIVE NestedParams(_)
NestedParams(k) ==
    IF k = 0 THEN {Flat(key) : key \in TableKeys \cup OtherKeys}
    ELSE NestedParams(k - 1) \cup {Under(v) : v \in NestedParams(k - 1)}
                             \cup {InList(v) : v \in NestedParams(k - 1)}

\* modify_node as an operation of a batch, the node named under the key.
ModifyNode(key) ==
    Object(<< <<Key.operation, String("modify_node")>>,
              <<Key.params, Object(<< <<key, String("Player")>> >>)>> >>)

\* Arguments of batch_scene_operations: the paths and the node named in
\* either way; and arguments without a scene, and without operations.
BatchArgs ==
    {Object(<< <<pk, ProjectPath>>, <<sk, ScenePath>>,
               <<Key.operations, JsArray(<<ModifyNode(nk)>>)>> >>) :
        pk \in {Key.project_path, Key.projectPath},
        sk \in {Key.scene_path, Key.scenePath},
        nk \in {Key.node_path, Key.nodePath}}
    \cup {Object(<< <<Key.projectPath, ProjectPath>>,
                    <<Key.operations, JsArray(<<ModifyNode(Key.nodePath)>>)>> >>),
          Object(<< <<Key.projectPath, ProjectPath>>,
                    <<Key.scenePath, ScenePath>> >>)}

\* Both names of one parameter in one object.
BothNames ==
    {Object(<< <<Key.node_path, Number(1)>>, <<Key.nodePath, Number(2)>> >>),
     Object(<< <<Key.nodePath, Number(2)>>, <<Key.node_path, Number(1)>> >>)}

\* A property that is null beside one that is named in the table.
WithNull ==
    {Object(<< <<Key.id, JsNull>>, <<Key.node_path, String("Player")>> >>)}

\* The sub-fields a caller gives for each type of the registry.
PayloadFields ==
    [Vector2 |-> <<Key.x, Key.y>>, Vector2i |-> <<Key.x, Key.y>>,
     Vector3 |-> <<Key.x, Key.y, Key.z>>, Vector3i |-> <<Key.x, Key.y, Key.z>>,
     Color |-> <<Key.r, Key.g, Key.b, Key.a>>,
     Rect2 |-> <<Key.x, Key.y, Key.w, Key.h>>,
     NodePath |-> <<Key.path>>, Resource |-> <<Key.path>>,
     RectangleShape2D |-> <<Key.size>>, CircleShape2D |-> <<Key.radius>>,
     CapsuleShape2D |-> <<Key.radius, Key.height>>,
     WorldBoundaryShape2D |-> <<Key.normal, Key.distance>>,
     SegmentShape2D |-> <<Key.a, Key.b>>,
     ConvexPolygonShape2D |-> <<Key.points>>]

\* {_type: t, ...}: a typed value as the caller writes it.
TypedPayload(t) ==
    Object(<< <<Key._type, String(t)>> >>
           \o [i \in 1..Len(PayloadFields[t]) |-> <<PayloadFields[t][i], Number(i)>>])

\* Payloads whose keys have no capital letter: the typed values, plain
\* mappings, and each of them inside a mapping.
Payloads ==
    LET flat == {TypedPayload(t) : t \in DOMAIN PayloadFields}
                \cup {Flat(key) : key \in {Key.z_index, Key.id, Key.node_path,
                                           Key.scene_path, Key.scene}}
    IN  flat \cup {Under(v) : v \in flat}

\* Arguments of set_node_property and of modify_node with a payload.
SetPropertyArgs ==
    {Object(<< <<Key.nodePath, String(<<"Player">>)>>,
               <<Key.property, String(<<"metadata/info">>)>>,
               <<Key.value, v>> >>) : v \in Payloads}
ModifyArgs ==
    {Object(<< <<Key.projectPath, ProjectPath>>, <<Key.scenePath, ScenePath>>,
               <<Key.nodePath, String(<<"Player">>)>>,
               <<Key.properties, v>> >>) : v \in Payloads}

ParamsInputs ==
    NestedParams(MaxDepth) \cup BatchArgs \cup BothNames \cup WithNull
        \cup SetPropertyArgs \cup ModifyArgs

InitParams ==
    /\ InitBridge
    /\ given \in ParamsInputs
    /\ returned = NotCalled

\* A tool handler normalizes its arguments.
CallNormalizeParameters ==
    /\ returned = NotCalled
    /\ returned' = <<"normalizeParameters", normalizeParameters(given)>>
    /\ UNCHANGED <<given, cvars, svars, pvars>>

\* executeOperation converts the params it is given.
CallConvertCamelToSnakeCase ==
    /\ returned = NotCalled
    /\ returned' = <<"convertCamelToSnakeCase", convertCamelToSnakeCase(given)>>
    /\ UNCHANGED <<given, cvars, svars, pvars>>

\* What was normalized is converted, as on the way to the script.
ConvertNormalized ==
    /\ returned[1] = "normalizeParameters"
    /\ returned' = <<"normalized, then converted",
                     convertCamelToSnakeCase(returned[2])>>
    /\ UNCHANGED <<given, cvars, svars, pvars>>

\* What was converted is normalized.
NormalizeConverted ==
    /\ returned[1] = "convertCamelToSnakeCase"
    /\ returned' = <<"converted, then normalized",
                     normalizeParameters(returned[2])>>
    /\ UNCHANGED <<given, cvars, svars, pvars>>

\* What was converted is converted again.
ConvertConverted ==
    /\ returned[1] = "convertCamelToSnakeCase"
    /\ returned' = <<"converted twice", convertCamelToSnakeCase(returned[2])>>
    /\ UNCHANGED <<given, cvars, svars, pvars>>

\* The tool batch_scene_operations is called.
CallBatchSceneOperations ==
    /\ returned = NotCalled
    /\ given \in BatchArgs
    /\ returned' = <<"batch_scene_operations", batch_scene_operations(given)>>
    /\ UNCHANGED <<given, cvars, svars, pvars>>

\* The tool modify_node is called.
CallModifyNode ==
    /\ returned = NotCalled
    /\ given \in ModifyArgs
    /\ returned' = <<"modify_node", modify_node(given)>>
    /\ UNCHANGED <<given, cvars, svars, pvars>>

\* The tool set_node_property is called.
CallSetNodeProperty ==
    /\ returned = NotCalled
    /\ given \in SetPropertyArgs
    /\ returned' = <<"set_node_property", set_node_property(given)>>
    /\ UNCHANGED <<given, cvars, svars, pvars>>

ParamsNext ==
    \/ CallModifyNode
    \/ CallSetNodeProperty
    \/ CallNormalizeParameters
    \/ CallConvertCamelToSnakeCase
    \/ ConvertNormalized
    \/ NormalizeConverted
    \/ ConvertConverted
    \/ CallBatchSceneOperations

SpecParams == InitParams /\ [][ParamsNext]_vars


(* ---------------------------------------------------------------------- *)
(* Properties of the parameter names                                       *)
(* ---------------------------------------------------------------------- *)
\* The pairs of the table: the word-separated key, the capitalized compound.
TablePairs ==
    {<<parameterMappings[2][i][1], parameterMappings[2][i][2][2]>> :
        i \in 1..Len(parameterMappings[2])}

\* The value is the key with the value 1, at the top or as the params of an
\* object.
Holds(v, key) == v = Flat(key) \/ v = Under(Flat(key))

\* C28: for every pair of the table, normalizeParameters rewrites the first
\* key to the second, convertCamelToSnakeCase rewrites the second to the
\* first, and either conversion followed by the other gives the key back.
C28_TableKeysRoundTrip ==
    \A pair \in TablePairs :
        /\ (Holds(given, pair[1]) /\ returned[1] = "normalizeParameters")
              => Holds(returned[2], pair[2])
        /\ (Holds(given, pair[2]) /\ returned[1] = "convertCamelToSnakeCase")
              => Holds(returned[2], pair[1])
        /\ (Holds(given, pair[1]) /\ returned[1] = "normalized, then converted")
              => returned[2] = given
        /\ (Holds(given, pair[2]) /\ returned[1] = "converted, then normalized")
              => returned[2] = given

\* {node_path: 1} has been normalized and converted back.
C28_Witness ==
    /\ given = Flat(Key.node_path)
    /\ returned = <<"normalized, then converted", Flat(Key.node_path)>>

\* C29: the params of an operation of batch_scene_operations that name the
\* node as nodePath reach the script with the node under node_path, which is
\* where _batch_modify_node looks for it.
C29_ArrayElementsAreNormalized ==
    (returned[1] = "batch_scene_operations" /\ returned[2][1] # "isError") =>
        LET asked == Prop(Prop(given, Key.operations)[2][1], Key.params)
            op == returned[2][2][Key.operations][2][1]
            op_params == Get(op[2], Key.params, Dictionary(EmptyDict))
        IN  /\ Len(returned[2][2][Key.operations][2])
                  = Len(Prop(given, Key.operations)[2])
            /\ HasKey(asked, Key.nodePath) =>
                  _batch_modify_node(op_params) = Str("Player")

\* The words of a key: every capital letter begins a word.
RECURSIVE SplitAtCapitals(_)
SplitAtCapitals(key) ==
    IF key = <<>> THEN <<>>
    ELSE LET rest == SplitAtCapitals(Tail(key))
         IN  IF rest = <<>> \/ IsUpper(Head(Tail(key)))
             THEN <<<<Head(key)>>>> \o rest
             ELSE <<<<Head(key)>> \o Head(rest)>> \o Tail(rest)

RECURSIVE LowerCased(_)
LowerCased(word) ==
    IF word = <<>> THEN <<>>
    ELSE <<toLowerCase(Head(word))>> \o LowerCased(Tail(word))

RECURSIVE JoinedWithUnderscores(_)
JoinedWithUnderscores(words) ==
    IF Len(words) = 1 THEN LowerCased(words[1])
    ELSE LowerCased(words[1]) \o <<"_">> \o JoinedWithUnderscores(Tail(words))

\* C30: a key that the reverse table does not have comes out of
\* convertCamelToSnakeCase as its words, split at its capital letters, in
\* lower case and joined with underscores, also when it begins with a capital
\* letter or has capitals in a row.
C30_UnlistedKeysSplitAtCapitals ==
    \A key \in OtherKeys :
        (given = Flat(key) /\ returned[1] = "convertCamelToSnakeCase") =>
            returned[2] = Flat(JoinedWithUnderscores(SplitAtCapitals(key)))


\* The key is one of the word-separated keys of the table, and the key the
\* table gives for it.
Listed(key) == \E pair \in TablePairs : pair[1] = key
Rewritten(key) ==
    IF Listed(key) THEN (CHOOSE pair \in TablePairs : pair[1] = key)[2]
    ELSE key

\* out is in with the keys of the table rewritten and nothing else changed,
\* in the nested mappings as at the top.
RECURSIVE RewritesListedKeysOnly(_, _)
RewritesListedKeysOnly(in, out) ==
    /\ out[1] = "object"
    /\ \A j \in 1..Len(out[2]) :
          \E i \in 1..Len(in[2]) : out[2][j][1] = Rewritten(in[2][i][1])
    /\ \A i \in 1..Len(in[2]) :
          LET key == Rewritten(in[2][i][1])
              v == in[2][i][2]
          IN  /\ In(key, out)
              /\ IF IsNested(v)
                 THEN RewritesListedKeysOnly(v, Prop(out, key))
                 ELSE Prop(out, key) = v

\* C31: normalizeParameters returns its params with every key that is not
\* in the table unchanged, every value that is no mapping unchanged, and
\* the keys of the table rewritten in the nested mappings at every depth.
C31_UnlistedKeysAndValuesKept ==
    returned[1] = "normalizeParameters" =>
        RewritesListedKeysOnly(given, returned[2])


\* The key is derived from its characters: the reverse table gives nothing
\* for it.
Derived(key) == snakeKey(key) = replace(key)

\* C32: for every key that is not in the table and is derived from its
\* characters, converting what convertCamelToSnakeCase returned once more
\* gives the same key as converting once.
C32_DerivationIdempotent ==
    \A key \in OtherKeys :
        (Derived(key) /\ Holds(given, key) /\ returned[1] = "converted twice")
            => returned[2] = convertCamelToSnakeCase(given)

\* {zIndex: 1} has been converted twice and is {z_index: 1}.
C32_Witness ==
    /\ given = Flat(Key.zIndex)
    /\ returned = <<"converted twice", Flat(Key.z_index)>>


(* ---------------------------------------------------------------------- *)
(* Further properties of the bridge client                                 *)
(* ---------------------------------------------------------------------- *)
\* The calls that were sent on socket s and are not settled.
SentOn(s) == {i \in Slots : calls[i].st = "pending" /\ calls[i].sock = s}

\* C33: the close or error event of a socket that is not the current socket
\* of the client leaves the reference to the current socket as it is and
\* settles no call that was sent on the current socket.
C33_StaleEventLeavesCurrentSocket ==
    [][\A s \in Sockets :
          (ws # NULL /\ ws # s /\ (SocketClose(s) \/ SocketError(s))) =>
              /\ ws' = ws
              /\ \A i \in SentOn(ws) : calls'[i] = calls[i]]_vars

\* No call is waiting for a connection or for its response.
AllSettled == \A i \in Slots : calls[i].st \notin {"waiting", "pending"}

\* C34: every call of request() is settled in the end.  A call that is
\* settled stays settled, so this is that again and again no call is left
\* waiting or pending, the timers being run.
C34_EveryCallSettles == []<>AllSettled

\* A call was rejected by its own timer while its socket stayed open.
C34_Witness ==
    \E i \in Slots :
        /\ calls[i].kind = "request"
        /\ calls[i].st = "rejected"
        /\ calls[i].reason = TimeoutError(calls[i].method, DefaultTimeoutMs)
        /\ calls[i].sock # NULL
        /\ readyState[calls[i].sock] = "OPEN"

\* The calls that were given an id, and those of them that are settled.
Issued == {i \in Slots : calls[i].id # NoId}
Settled == {i \in Slots : calls[i].st \in {"fulfilled", "rejected"}}

\* The table and the timers agree with the state of the calls.
TableExact ==
    /\ \A i \in Issued :
          /\ (calls[i].st = "pending") <=> (calls[i].id \in DOMAIN pendingRequests)
          /\ (calls[i].st = "pending") <=> (calls[i].timer = "armed")
    /\ \A k \in DOMAIN pendingRequests :
          pendingRequests[k] \in Issued /\ calls[pendingRequests[k]].id = k
    /\ \A i \in Slots \ Issued : calls[i].timer = "none"

\* C35: an id is in the pending table, and the timer of its call is armed,
\* exactly while the call is unsettled, every entry of the table is the
\* call that was given that id, and no step changes a call that is settled,
\* its timer included: nothing settles a call a second time.
C35_SettledOnceAndTableExact ==
    /\ []TableExact
    /\ [][\A i \in Settled : calls'[i] = calls[i]]_vars

\* One call was settled by its response, one by its timer and one by the
\* close event, and the table is empty.
C35_Witness ==
    /\ pendingRequests = EmptyMap
    /\ \E i, j, k \in Issued :
          /\ calls[i].st = "fulfilled" /\ calls[i].timer = "cleared"
          /\ calls[j].reason = TimeoutError(calls[j].method, DefaultTimeoutMs)
          /\ calls[j].timer = "fired"
          /\ calls[k].reason = ClosedError /\ calls[k].timer = "cleared"


(* ---------------------------------------------------------------------- *)
(* A headless tool and its engine script: load_sprite                      *)
(* ---------------------------------------------------------------------- *)
\* What the engine finds when the script runs.  Whether quit(1) ends the
\* script at once or only sets the exit code, the script going on, is the
\* engine's matter: both are drawn.
Worlds ==
    [file_check : BOOLEAN, scene_loads : BOOLEAN,
     node : {"null", "Sprite2D", "TextureRect", "Node2D"},
     texture_loads : BOOLEAN, pack_ok : BOOLEAN, save_ok : BOOLEAN,
     quit_stops : BOOLEAN]

\* A run of the script: what it wrote, the exit code it asked for, whether
\* it asked for exit code 1, whether the engine has ended it, and whether a
\* runtime error has ended the function.
Started ==
    [stdout |-> <<>>, stderr |-> <<>>, exit_code |-> 0, reported |-> FALSE,
     stopped |-> FALSE, aborted |-> FALSE]

Running(r) == ~r.stopped /\ ~r.aborted

print(r, text) == IF Running(r) THEN [r EXCEPT !.stdout = @ \o text] ELSE r
printerr(r, text) == IF Running(r) THEN [r EXCEPT !.stderr = @ \o text] ELSE r
quit(r, code, w) ==
    IF Running(r)
    THEN [r EXCEPT !.exit_code = code, !.reported = @ \/ code = 1,
                   !.stopped = w.quit_stops]
    ELSE r

\* A call on a null instance: the engine reports it and the function ends.
ScriptError(r, what) ==
    IF Running(r)
    THEN [r EXCEPT !.stderr = @ \o <<"SCRIPT ERROR: ", what>>, !.aborted = TRUE]
    ELSE r

\* func load_sprite(params), without the output of the debug mode.
load_sprite(params, w) ==
    LET scene_path == Get(params[2], Key.scene_path, Str(<<>>))[2]
        node_path == Get(params[2], Key.node_path, Str(<<>>))[2]
        texture_path == Get(params[2], Key.texture_path, Str(<<>>))[2]
        scene == w.file_check /\ w.scene_loads
        r1 == print(Started, <<"Loading sprite into scene: ">> \o scene_path)
        r2 == IF ~w.file_check
              THEN quit(printerr(printerr(r1,
                       <<"Scene file does not exist at: ", "res://">> \o scene_path),
                       <<"Absolute file path that doesn't exist: ">> \o scene_path),
                       1, w)
              ELSE r1
        r3 == IF ~scene
              THEN quit(printerr(r2, <<"Failed to", " load scene: ", "res://">>
                                        \o scene_path), 1, w)
              ELSE r2
        r4 == IF ~scene
              THEN ScriptError(r3, "instantiate() on a null instance")
              ELSE r3
        r5 == IF w.node = "null"
              THEN quit(printerr(r4, <<"Node not found: ">> \o node_path), 1, w)
              ELSE r4
        r6 == CASE w.node = "null" ->
                      ScriptError(r5, "get_class() on a null instance")
                [] w.node = "Node2D" ->
                      quit(printerr(r5, <<"Node is not a sprite-compatible type: ",
                                          w.node>>), 1, w)
                [] OTHER -> r5
        r7 == IF ~w.texture_loads
              THEN quit(printerr(r6, <<"Failed to", " load texture: ", "res://">>
                                        \o texture_path), 1, w)
              ELSE r6
    IN  CASE ~w.pack_ok ->
                printerr(r7, <<"Failed to", " pack scene: ">>)
          [] ~w.save_ok ->
                printerr(r7, <<"Failed to", " save scene: ">>)
          [] OTHER ->
                print(r7, <<"Sprite loaded successfully with texture: ", "res://">>
                              \o texture_path)

\* func _init(), from the match on: the operation, and quit() after it.
_init(params, w) == quit(load_sprite(params, w), 0, w)

\* execFileAsync and the catch clause of executeOperation: the output of the
\* process, whether it ended with exit code 0 or not.
OperationOutput(r) == [stdout |-> r.stdout, stderr |-> r.stderr]

\* createTextResponse(text)
createTextResponse(text) == <<"text", text>>

\* The files the tool layer finds on the disk.
TexturePath == String(<<"icon.svg">>)
existsSync(path) == path \in {ProjectPath, ScenePath, TexturePath}

\* The handler of the tool load_sprite.
load_sprite_handler(rawArgs, w) ==
    LET args == normalizeParameters(rawArgs)
        projectPath == Prop(args, Key.projectPath)
        scenePath == Prop(args, Key.scenePath)
        nodePath == Prop(args, Key.nodePath)
        texturePath == Prop(args, Key.texturePath)
        params == Object(<< <<Key.scenePath, scenePath>>,
                            <<Key.nodePath, nodePath>>,
                            <<Key.texturePath, texturePath>> >>)
        out == OperationOutput(_init(executeOperation(params), w))
    IN  CASE ~Truthy(projectPath) \/ ~Truthy(scenePath)
                \/ ~Truthy(nodePath) \/ ~Truthy(texturePath) ->
                createErrorResponse(<<"Missing required parameters">>)
          [] ~validatePath(projectPath) \/ ~validatePath(scenePath)
                \/ ~validatePath(nodePath) \/ ~validatePath(texturePath) ->
                createErrorResponse(<<"Invalid path">>)
          [] ~existsSync(projectPath) ->
                createErrorResponse(<<"Not a valid Mechanical Turk project: ">>)
          [] ~existsSync(scenePath) ->
                createErrorResponse(<<"Scene file does not exist: ">>)
          [] ~existsSync(texturePath) ->
                createErrorResponse(<<"Texture file does not exist: ">>)
          [] includes(out.stderr, "Failed to") ->
                createErrorResponse(<<"Failed to load sprite: ">> \o out.stderr)
          [] OTHER ->
                createTextResponse(<<"Sprite loaded successfully with texture: ">>
                                      \o texturePath[2] \o <<"Output: ">> \o out.stdout)

\* The arguments of load_sprite: complete, under either name of the node,
\* and without the texture.
SpriteArgs ==
    {Object(<< <<Key.projectPath, ProjectPath>>, <<Key.scenePath, ScenePath>>,
               <<nk, String(<<"root/Player">>)>>,
               <<Key.texturePath, TexturePath>> >>) :
        nk \in {Key.nodePath, Key.node_path}}
    \cup {Object(<< <<Key.projectPath, ProjectPath>>,
                    <<Key.scenePath, ScenePath>>,
                    <<Key.nodePath, String(<<"root/Player">>)>> >>)}

InitHeadless ==
    /\ InitBridge
    /\ given \in [args : SpriteArgs, world : Worlds]
    /\ returned = NotCalled

\* The tool load_sprite is called; the engine runs the script if the handler
\* gets that far.
CallLoadSprite ==
    /\ returned = NotCalled
    /\ returned' = <<"load_sprite", load_sprite_handler(given.args, given.world)>>
    /\ UNCHANGED <<given, cvars, svars, pvars>>

SpecHeadless == InitHeadless /\ [][CallLoadSprite]_vars

\* The run of the script for the call that was made, if the handler ran it.
EngineRan ==
    /\ returned[1] = "load_sprite"
    /\ Truthy(Prop(normalizeParameters(given.args), Key.texturePath))
ScriptRun ==
    _init(executeOperation(normalizeParameters(given.args)), given.world)

\* C36: when the engine script has reported an error for the operation, an
\* error message on stderr and quit(1), the tool returns an error response
\* and no success message.
C36_ScriptErrorIsAnErrorResponse ==
    (EngineRan /\ ScriptRun.reported /\ ScriptRun.stderr # <<>>) =>
        returned[2][1] = "isError"


(* ---------------------------------------------------------------------- *)
(* Further properties of the decoders                                      *)
(* ---------------------------------------------------------------------- *)
\* The type names of the registry of the controller.
KNOWN_TYPES ==
    {"Vector2", "Vector2i", "Vector3", "Vector3i", "Color", "Rect2",
     "NodePath", "Resource", "RectangleShape2D", "CircleShape2D",
     "CapsuleShape2D", "WorldBoundaryShape2D", "SegmentShape2D",
     "ConvexPolygonShape2D"}

\* The wire value is a mapping whose _type is one of the registry.
IsTypedValue(v) ==
    /\ typeof(v) = "Dictionary"
    /\ "_type" \in DOMAIN v[2]
    /\ typeof(v[2]["_type"]) = "String"
    /\ v[2]["_type"][2] \in KNOWN_TYPES

\* C37: for a wire value of any of the 14 types of KNOWN_TYPES, the decoder
\* of the engine operations script and the decoder of the level handler
\* return the same result.
C37_DecodersAgree ==
    (IsTypedValue(given) /\ returned[1] \in {"convert_typed_value", "_convert_typed_value"})
        => /\ returned[1] = "convert_typed_value"
                => returned[2] = _convert_typed_value(given)
           /\ returned[1] = "_convert_typed_value"
                => returned[2] = convert_typed_value(given)


(* ---------------------------------------------------------------------- *)
(* Further properties of the parameter names                               *)
(* ---------------------------------------------------------------------- *)
\* C38: a nested payload whose keys have no capital letter, the typed
\* values of every type of the registry among them, reaches the engine
\* script (modify_node: properties) and the bridge server
\* (set_node_property: value) with its keys unchanged.
C38_PayloadKeysUnchanged ==
    /\ (returned[1] = "modify_node" /\ returned[2][1] # "isError") =>
          Get(returned[2][2], Key.properties, Nil)
              = ToVariant(Prop(given, Key.properties))
    /\ (returned[1] = "set_node_property" /\ returned[2][1] # "isError") =>
          Get(returned[2][2], Key.value, Nil) = ToVariant(Prop(given, Key.value))

(* ---------------------------------------------------------------------- *)
(* The tools that start processes and write files                          *)
(* ---------------------------------------------------------------------- *)
\* The number of processes run_project may start.
MaxProcs == 3

\* The paths a caller gives: the project on the disk, a directory that is
\* no project, the empty string and a path that climbs out with "..".
EmptyPath  == String(<<>>)
ClimbPath  == String(<<"..", "/etc">>)
OtherPath  == String(<<"/elsewhere">>)
RunPaths   == {ProjectPath, OtherPath, EmptyPath, ClimbPath}
\* The scene of run_project: absent, a scene, a climbing path, and a value
\* that is no string, on which validatePath throws a TypeError.
Scenes     == {Undefined, ScenePath, String(<<"..", "/main.tscn">>), Number(5)}
OutputPaths == {Undefined, EmptyPath, String(<<"/tmp/shot.png">>),
                String(<<"..", "/shot.png">>)}
TestDirs   == {Undefined, String(<<"res://test">>), String(<<"..", "/..", "/lib">>)}

With(key, v) == IF v = Undefined THEN <<>> ELSE << <<key, v>> >>
RunArgs ==
    {Object(With(Key.projectPath, p) \o With(Key.scene, sc)) :
        p \in RunPaths, sc \in Scenes}
TestArgs ==
    {Object(With(Key.projectPath, p) \o With(Key.testDir, d)) :
        p \in RunPaths, d \in TestDirs}
ShotArgs == {Object(With(Key.outputPath, o)) : o \in OutputPaths}

\* A process run_project has spawned: whether its exit event has come, which
\* code sent it a signal with kill(), the paths on its command line and, once
\* it has exited, the activeProcess its exit handler found.
Spawn(cmdArgs) ==
    [state |-> "running", signal |-> "none", cmdArgs |-> cmdArgs, found |-> NULL]
kill(procs, p, by) ==
    IF p = NULL THEN procs ELSE [procs EXCEPT ![p].signal = by]

StartedText ==
    createTextResponse(<<"Godot project started in debug mode. Use get_debug_output to see output.">>)

\* run_project, editor.ts:99-108: up to `await ctx.ensureGodotPath()`.
RunProject(rawArgs) ==
    LET args == normalizeParameters(rawArgs)
        projectPath == Prop(args, Key.projectPath)
    IN  /\ Len(spawned) + Len(starting) < MaxProcs
        /\ IF ~Truthy(projectPath)
           THEN /\ returned' = <<"run_project",
                                 createErrorResponse(<<"Project path is required">>)>>
                /\ starting' = starting
           ELSE IF ~validatePath(projectPath)
           THEN /\ returned' = <<"run_project",
                                 createErrorResponse(<<"Invalid project path">>)>>
                /\ starting' = starting
           ELSE /\ returned' = <<"run_project", <<"awaits", <<"ensureGodotPath">>>>>>
                /\ starting' = Append(starting, args)
        /\ used' = {}
        /\ UNCHANGED <<given, cvars, svars, activeProcess, spawned>>

Without(seq, k) == [i \in 1..(Len(seq) - 1) |-> IF i < k THEN seq[i] ELSE seq[i + 1]]

\* run_project, editor.ts:109-146: ensureGodotPath has resolved for the k-th
\* call that awaits it; the rest of the handler runs without a pause.
RunProjectResumes(k) ==
    LET args == starting[k]
        projectPath == Prop(args, Key.projectPath)
        scene == Prop(args, Key.scene)
        killed == kill(spawned, activeProcess, "run_project")
        cmdArgs == IF Truthy(scene) /\ validatePath(scene)
                   THEN <<projectPath, scene>> ELSE <<projectPath>>
    IN  /\ k \in 1..Len(starting)
        /\ starting' = Without(starting, k)
        /\ IF ~existsSync(projectPath)
           THEN /\ returned' = <<"run_project",
                                 createErrorResponse(<<"Not a valid Godot project: ">>
                                                        \o projectPath[2])>>
                /\ used' = {}
                /\ UNCHANGED <<activeProcess, spawned>>
           ELSE IF Truthy(scene) /\ scene[1] # "string"
           \* validatePath(args.scene) throws: path.includes is not a function
           THEN /\ returned' = <<"run_project",
                                 createErrorResponse(<<"Failed to run Godot project: ",
                                                       "path.includes is not a function">>)>>
                /\ spawned' = killed
                /\ used' = {}
                /\ UNCHANGED activeProcess
           ELSE /\ spawned' = Append(killed, Spawn(cmdArgs))
                /\ activeProcess' = Len(spawned) + 1
                /\ used' = {<<"spawn", cmdArgs[i]>> : i \in 1..Len(cmdArgs)}
                /\ returned' = <<"run_project", StartedText>>
        /\ UNCHANGED <<given, cvars, svars>>

\* run_project, editor.ts:147-151: ensureGodotPath has thrown.
RunProjectFails(k) ==
    /\ k \in 1..Len(starting)
    /\ starting' = Without(starting, k)
    /\ returned' = <<"run_project",
                     createErrorResponse(<<"Failed to run Godot project: ",
                                           "Could not find a valid Godot executable path">>)>>
    /\ used' = {}
    /\ UNCHANGED <<given, cvars, svars, activeProcess, spawned>>

\* stop_project, editor.ts:158-167
StopProject ==
    /\ IF activeProcess = NULL
       THEN /\ returned' = <<"stop_project",
                             createErrorResponse(<<"No active Godot process to stop.">>)>>
            /\ UNCHANGED <<activeProcess, spawned>>
       ELSE /\ spawned' = kill(spawned, activeProcess, "stop_project")
            /\ activeProcess' = NULL
            /\ returned' = <<"stop_project",
                             createTextResponse(<<"Godot project stopped">>)>>
    /\ used' = {}
    /\ UNCHANGED <<given, cvars, svars, starting>>

\* clearActiveProcess(), editor.ts:25-30, called when the server closes.
clearActiveProcess ==
    /\ activeProcess # NULL
    /\ spawned' = kill(spawned, activeProcess, "clearActiveProcess")
    /\ activeProcess' = NULL
    /\ UNCHANGED <<given, returned, cvars, svars, starting, used>>

\* An exit handler that clears the record whichever process it belongs to.
OnExitUnguarded(p) == NULL

\* proc.on('exit', ...), editor.ts:135-139
OnExit(p) ==
    IF activeProcess # NULL /\ activeProcess = p THEN NULL ELSE activeProcess

\* The exit event of a process, whether it ended by itself or by a signal.
ProcessExit(p) ==
    /\ p \in 1..Len(spawned)
    /\ spawned[p].state = "running"
    /\ spawned' = [spawned EXCEPT ![p].state = "exited", ![p].found = activeProcess]
    /\ activeProcess' = OnExit(p)
    /\ UNCHANGED <<given, returned, cvars, svars, starting, used>>

\* run_tests: the project path is validated, the test directory is put on
\* the command line as it came.
RunTests(rawArgs, godot, gut) ==
    LET args == normalizeParameters(rawArgs)
        projectPath == Prop(args, Key.projectPath)
        testDir == Prop(args, Key.testDir)
    IN  /\ IF ~Truthy(projectPath)
           THEN /\ returned' = <<"run_tests",
                                 createErrorResponse(<<"Project path is required">>)>>
                /\ used' = {}
           ELSE IF ~validatePath(projectPath)
           THEN /\ returned' = <<"run_tests",
                                 createErrorResponse(<<"Invalid project path">>)>>
                /\ used' = {}
           ELSE IF ~godot
           THEN /\ returned' = <<"run_tests",
                                 createErrorResponse(<<"Failed to run tests: ">>)>>
                /\ used' = {}
           ELSE IF ~existsSync(projectPath)
           THEN /\ returned' = <<"run_tests",
                                 createErrorResponse(<<"Not a valid Godot project: ">>
                                                        \o projectPath[2])>>
                /\ used' = {}
           ELSE IF ~gut
           THEN /\ returned' = <<"run_tests",
                                 createErrorResponse(<<"GUT testing framework not found">>)>>
                /\ used' = {}
           ELSE /\ returned' = <<"run_tests",
                                 createTextResponse(<<"GUT Test Results:">>)>>
                /\ used' = {<<"execFile", projectPath>>}
                            \cup (IF Truthy(testDir)
                                  THEN {<<"execFile", testDir>>} ELSE {})
        /\ UNCHANGED <<given, cvars, svars, activeProcess, spawned, starting>>

\* What the bridge has for a capture_screenshot request.
Shots == {"image", "no image", "rejected"}

\* capture_screenshot: the file is written at the path as it came.
CaptureScreenshot(rawArgs, result) ==
    LET args == normalizeParameters(rawArgs)
        outputPath == Prop(args, Key.outputPath)
    IN  /\ IF result = "rejected"
           THEN /\ returned' = <<"capture_screenshot",
                                 createErrorResponse(<<"Failed to capture screenshot: ">>)>>
                /\ used' = {}
           ELSE IF result = "no image"
           THEN /\ returned' = <<"capture_screenshot",
                                 createErrorResponse(<<"No screenshot data received from the engine">>)>>
                /\ used' = {}
           ELSE IF Truthy(outputPath)
           THEN /\ returned' = <<"capture_screenshot",
                                 createTextResponse(<<"Screenshot saved to: ">>
                                                       \o outputPath[2])>>
                /\ used' = {<<"writeFileSync", outputPath>>}
           ELSE /\ returned' = <<"capture_screenshot", <<"image", <<"image/png">>>>>>
                /\ used' = {}
        /\ UNCHANGED <<given, cvars, svars, activeProcess, spawned, starting>>

\* The tools that track a process, and the exit events of the processes.
ProcessNext ==
    \/ \E rawArgs \in RunArgs : RunProject(rawArgs)
    \/ \E k \in 1..MaxProcs : RunProjectResumes(k)
    \/ \E k \in 1..MaxProcs : RunProjectFails(k)
    \/ StopProject
    \/ clearActiveProcess
    \/ \E p \in 1..MaxProcs : ProcessExit(p)

SpecProcess == Init /\ [][ProcessNext]_vars

\* The tools that take a path from the caller and hand it on.
PathsNext ==
    \/ \E rawArgs \in RunArgs : RunProject(rawArgs)
    \/ \E k \in 1..MaxProcs : RunProjectResumes(k)
    \/ \E k \in 1..MaxProcs : RunProjectFails(k)
    \/ \E rawArgs \in TestArgs, godot \in BOOLEAN, gut \in BOOLEAN :
          RunTests(rawArgs, godot, gut)
    \/ \E rawArgs \in ShotArgs, result \in Shots : CaptureScreenshot(rawArgs, result)

SpecPaths == Init /\ [][PathsNext]_vars

\* C39: the tracked process is none, or it is the process run_project
\* started last and that process has neither had its exit event nor been
\* stopped by stop_project; and the exit event of a process that is not the
\* tracked one leaves the record of the tracked one alone.
Stopped(p) == spawned[p].signal \in {"stop_project", "clearActiveProcess"}
Tracked ==
    \/ activeProcess = NULL
    \/ /\ activeProcess \in 1..Len(spawned)
       /\ activeProcess = Len(spawned)
       /\ spawned[activeProcess].state # "exited"
       /\ ~Stopped(activeProcess)
C39_TrackedIsLatestLiveProcess ==
    []Tracked
    /\ [][\A p \in 1..MaxProcs :
             (ProcessExit(p) /\ activeProcess # NULL /\ activeProcess # p)
                => activeProcess' = activeProcess]_vars

\* A process that run_project replaced has exited while its replacement was
\* tracked, and the replacement is tracked still.
C39_Witness ==
    /\ Len(spawned) >= 2
    /\ spawned[1].state = "exited"
    /\ spawned[1].signal = "run_project"
    /\ spawned[1].found = 2
    /\ activeProcess = 2
    /\ spawned[2].state = "running"

\* C40: every path a handler gives to spawn, to execFile or to writeFileSync
\* has passed validatePath: it is not empty and has no ".." in it.
C40_NoInvalidPathIsUsed == \A u \in used : validatePath(u[2])

====
